---- MODULE Spec2Model ----
(***************************************************************************)
(* A model of subs-cli.  Package parser, the filename-to-metadata engine:  *)
(* cleanFilename, the nine-rule pattern registry and its dispatcher Parse, *)
(* the season/episode resolver, the source/codec splitter and the          *)
(* validator.  Package api: the OpenSubtitles client's Authenticate,       *)
(* Search and Download.  Package cmd: the CLI's Run, its argument          *)
(* validators and its file and directory processing.  Filenames are        *)
(* sequences of one-character strings, so that every conversion is         *)
(* computed character by character as the code does.                       *)
(***************************************************************************)
EXTENDS Integers, Sequences, FiniteSets, TLC

VARIABLES
    pc,         \* which call has been made so far
    filename,   \* the argument of Parse / cleanFilename
    cleanName,  \* cleanFilename(filename)
    reclean,    \* cleanFilename(cleanName)
    result,     \* what Parse(filename) returned
    respelled,  \* filename with one dot separator respelled as spaces/dots
    result2,    \* what Parse(respelled) returned
    matchMap,   \* the slots handed to extractSeasonEpisode
    resolved,   \* what extractSeasonEpisode returned
    combined,   \* the argument of extractSourceAndCodec
    split,      \* what extractSourceAndCodec returned
    shape,      \* the tokens the argument was put together from
    candidate,  \* the record handed to validateMediaInfo
    verdict,    \* what became of the candidate
    patterns,   \* Parser.patterns, the registry New() builds
    calls,      \* the concurrent calls of Parse: each one's locals
    client,     \* the OpenSubtitlesClient: its config and its token
    wire,       \* the requests the client has sent, oldest first
    reply,      \* what the client's last call returned
    cli,        \* the CLI struct: the command line's arguments
    disk,       \* the file system the CLI looks at
    trace,      \* what the CLI has done so far, oldest first
    todo,       \* the media files the CLI has still to process
    ret         \* what the CLI's last call returned

\* the variables of the parser's unit calls, of the parser under concurrent
\* calls, of the client and of the CLI
unitVars == <<filename, cleanName, reclean, result, respelled, result2,
              matchMap, resolved, combined, split, shape, candidate, verdict>>
concVars == <<patterns, calls>>
apiVars == <<client, wire, reply>>
cliVars == <<cli, disk, trace, todo, ret>>

vars == <<pc, unitVars, concVars, apiVars, cliVars>>

-----------------------------------------------------------------------------
(* Strings *)

Empty == <<>>

Digits == <<"0", "1", "2", "3", "4", "5", "6", "7", "8", "9">>

UpperChars == <<"A", "B", "C", "D", "E", "F", "G", "H", "I", "J", "K", "L", "M",
                "N", "O", "P", "Q", "R", "S", "T", "U", "V", "W", "X", "Y", "Z">>

LowerChars == <<"a", "b", "c", "d", "e", "f", "g", "h", "i", "j", "k", "l", "m",
                "n", "o", "p", "q", "r", "s", "t", "u", "v", "w", "x", "y", "z">>

Range(seq) == {seq[i] : i \in 1..Len(seq)}

DigitSet == Range(Digits)
UpperSet == Range(UpperChars)
LowerSet == Range(LowerChars)

\* unicode.IsSpace on the characters the model uses
SpaceSet == {" ", "\t"}

IsDigit(c) == c \in DigitSet

DigitVal(c) == (CHOOSE i \in 1..10 : Digits[i] = c) - 1

\* strings.ToLower, one character
ToLowerChar(c) ==
    IF c \in UpperSet
    THEN LowerChars[CHOOSE i \in 1..26 : UpperChars[i] = c]
    ELSE c

ToLower(s) == [i \in 1..Len(s) |-> ToLowerChar(s[i])]

\* s[from:] in Go, with from a 1-based position here
From(s, from) == SubSeq(s, from, Len(s))

\* strings.HasPrefix(From(s, i), p)
HasPrefixAt(s, i, p) ==
    /\ i + Len(p) - 1 <= Len(s)
    /\ \A k \in 1..Len(p) : s[i + k - 1] = p[k]

\* strings.Index: the least 1-based position of sub in s, 0 when absent
\* (Go's -1).  An empty sub is found at the front.
Index(s, sub) ==
    LET hits == {i \in 1..(Len(s) - Len(sub) + 1) : HasPrefixAt(s, i, sub)}
    IN IF hits = {} THEN 0 ELSE CHOOSE i \in hits : \A j \in hits : i <= j

Contains(s, sub) == Index(s, sub) > 0

\* strings.ReplaceAll(s, old, new) for a non-empty old: non-overlapping
\* occurrences, left to right.
RECURSIVE ReplaceFrom(_, _, _, _)
ReplaceFrom(s, i, old, new) ==
    IF i > Len(s) THEN Empty
    ELSE IF HasPrefixAt(s, i, old)
         THEN new \o ReplaceFrom(s, i + Len(old), old, new)
         ELSE <<s[i]>> \o ReplaceFrom(s, i + 1, old, new)

ReplaceAll(s, old, new) == ReplaceFrom(s, 1, old, new)

\* strings.TrimSpace
RECURSIVE TrimLeft(_)
TrimLeft(s) ==
    IF Len(s) > 0 /\ s[1] \in SpaceSet THEN TrimLeft(Tail(s)) ELSE s

RECURSIVE TrimRight(_)
TrimRight(s) ==
    IF Len(s) > 0 /\ s[Len(s)] \in SpaceSet
    THEN TrimRight(SubSeq(s, 1, Len(s) - 1)) ELSE s

TrimSpace(s) == TrimRight(TrimLeft(s))

\* strings.TrimPrefix
TrimPrefix(s, p) == IF HasPrefixAt(s, 1, p) THEN From(s, Len(p) + 1) ELSE s

\* strings.Split(s, sep) for a one-character sep: always at least one part
RECURSIVE SplitFrom(_, _, _, _)
SplitFrom(s, i, sep, cur) ==
    IF i > Len(s) THEN <<cur>>
    ELSE IF s[i] = sep
         THEN <<cur>> \o SplitFrom(s, i + 1, sep, Empty)
         ELSE SplitFrom(s, i + 1, sep, Append(cur, s[i]))

Split(s, sep) == SplitFrom(s, 1, sep, Empty)

\* strings.Join
RECURSIVE Join(_, _)
Join(parts, sep) ==
    IF Len(parts) = 0 THEN Empty
    ELSE IF Len(parts) = 1 THEN parts[1]
    ELSE parts[1] \o sep \o Join(Tail(parts), sep)

\* strings.Fields: the maximal runs of non-space characters
Fields(s) ==
    LET RECURSIVE Go(_, _)
        Go(i, cur) ==
            IF i > Len(s) THEN (IF cur = Empty THEN <<>> ELSE <<cur>>)
            ELSE IF s[i] \in SpaceSet
                 THEN (IF cur = Empty THEN <<>> ELSE <<cur>>) \o Go(i + 1, Empty)
                 ELSE Go(i + 1, Append(cur, s[i]))
    IN Go(1, Empty)

\* strconv.Atoi on a string of ASCII digits (the only strings the
\* patterns' \d slots can hold); ok is FALSE for anything else.
RECURSIVE DigitsValue(_)
DigitsValue(s) ==
    IF Len(s) = 0 THEN 0
    ELSE 10 * DigitsValue(SubSeq(s, 1, Len(s) - 1)) + DigitVal(s[Len(s)])

IsNumeral(s) == Len(s) > 0 /\ \A i \in 1..Len(s) : IsDigit(s[i])

\* strconv.Atoi: an optional sign and decimal digits; anything else is a
\* syntax error, for which Atoi returns 0 and a non-nil error.
Atoi(s) ==
    IF IsNumeral(s) THEN [ok |-> TRUE, n |-> DigitsValue(s)]
    ELSE IF Len(s) > 1 /\ s[1] = "+" /\ IsNumeral(Tail(s))
         THEN [ok |-> TRUE, n |-> DigitsValue(Tail(s))]
    ELSE IF Len(s) > 1 /\ s[1] = "-" /\ IsNumeral(Tail(s))
         THEN [ok |-> TRUE, n |-> 0 - DigitsValue(Tail(s))]
    ELSE [ok |-> FALSE, n |-> 0]

-----------------------------------------------------------------------------
(* cleanFilename *)

\* filepath.Base with "/" as the separator
RECURSIVE StripTrailingSlashes(_)
StripTrailingSlashes(p) ==
    IF Len(p) > 0 /\ p[Len(p)] = "/"
    THEN StripTrailingSlashes(SubSeq(p, 1, Len(p) - 1)) ELSE p

Base(path) ==
    IF path = Empty THEN <<".">>
    ELSE LET p == StripTrailingSlashes(path)
             slashes == {i \in 1..Len(p) : p[i] = "/"}
             last == IF slashes = {} THEN 0
                     ELSE CHOOSE i \in slashes : \A j \in slashes : j <= i
             seg == From(p, last + 1)
         IN IF seg = Empty THEN <<"/">> ELSE seg

\* the loop's body run once, whatever is left
CollapseDotsOnce(s) == ReplaceAll(s, <<".", ".">>, <<".">>)

\* the loop  for strings.Contains(cleaned, "..") { ReplaceAll(.., "..", ".") }
RECURSIVE CollapseDots(_)
CollapseDots(s) ==
    IF Contains(s, <<".", ".">>)
    THEN CollapseDots(ReplaceAll(s, <<".", ".">>, <<".">>))
    ELSE s

\* cleanFilename with its two steps in the other order: dots are collapsed
\* before the spaces become dots
cleanFilenameCollapseFirst(name) ==
    ReplaceAll(CollapseDots(Base(name)), <<" ">>, <<".">>)

\* cleanFilename that leaves spaces as they are
cleanFilenameKeepSpaces(name) == CollapseDots(Base(name))

cleanFilename(name) == CollapseDots(ReplaceAll(Base(name), <<" ">>, <<".">>))

-----------------------------------------------------------------------------
(* Regular expressions.  A pattern is a sequence of elements; Match finds   *)
(* the match a backtracking search finds first (Go's leftmost-first rule): *)
(* an optional group is tried before it is skipped, a greedy repetition    *)
(* takes the longest run first, a lazy one the shortest first.             *)

Bos == [k |-> "bos"]                                    \* ^
Eos == [k |-> "eos"]                                    \* $
Lit(c) == [k |-> "lit", c |-> c]
Open(n) == [k |-> "open", n |-> n]                      \* (?P<n>
Close(n) == [k |-> "close", n |-> n]                    \* )
Opt(body) == [k |-> "opt", body |-> body]               \* (?: body )?
Alt(alts) == [k |-> "alt", alts |-> alts]               \* a|b|c
\* cls{min,max}; inf: no upper limit; greedy or lazy
Rep(cls, min, max, inf, greedy) ==
    [k |-> "rep", cls |-> cls, min |-> min, max |-> max, inf |-> inf,
     greedy |-> greedy]

Lits(word) == [i \in 1..Len(word) |-> Lit(word[i])]
Cap(n, body) == <<Open(n)>> \o body \o <<Close(n)>>

\* . (any character but a newline), \d, \w
InClass(cls, c) ==
    CASE cls = "any" -> c /= "\n"
      [] cls = "digit" -> c \in DigitSet
      [] cls = "word" -> c \in DigitSet \cup UpperSet \cup LowerSet \cup {"_"}

SlotNames == {"title", "year", "season", "episode", "alt_episode", "quality",
              "source", "ext"}

NoSlots == [n \in SlotNames |-> Empty]
NoStarts == [n \in SlotNames |-> 0]
NoMatch == [ok |-> FALSE, caps |-> NoSlots]

\* how many characters of s from position i on are in cls, at most limit
RECURSIVE RunLen(_, _, _, _)
RunLen(cls, s, i, limit) ==
    IF limit > 0 /\ i <= Len(s) /\ InClass(cls, s[i])
    THEN 1 + RunLen(cls, s, i + 1, limit - 1)
    ELSE 0

RECURSIVE Match(_, _, _, _, _)
RECURSIVE MatchAlt(_, _, _, _, _, _, _)
RECURSIVE RepLazy(_, _, _, _, _, _, _)
RECURSIVE RepGreedy(_, _, _, _, _, _, _)

\* the alternatives of an alternation, in order, each followed by rest
MatchAlt(alts, a, rest, s, i, st, caps) ==
    IF a > Len(alts) THEN NoMatch
    ELSE LET r == Match(alts[a] \o rest, s, i, st, caps)
         IN IF r.ok THEN r ELSE MatchAlt(alts, a + 1, rest, s, i, st, caps)

\* n characters are taken already: try rest, then one character more
RepLazy(e, n, rest, s, i, st, caps) ==
    LET r == IF n >= e.min THEN Match(rest, s, i + n, st, caps) ELSE NoMatch
    IN IF r.ok THEN r
       ELSE IF (e.inf \/ n < e.max) /\ i + n <= Len(s) /\ InClass(e.cls, s[i + n])
            THEN RepLazy(e, n + 1, rest, s, i, st, caps)
            ELSE NoMatch

\* try n characters, then n - 1, down to e.min
RepGreedy(e, n, rest, s, i, st, caps) ==
    IF n < e.min THEN NoMatch
    ELSE LET r == Match(rest, s, i + n, st, caps)
         IN IF r.ok THEN r ELSE RepGreedy(e, n - 1, rest, s, i, st, caps)

Match(re, s, i, st, caps) ==
    IF Len(re) = 0 THEN [ok |-> TRUE, caps |-> caps]
    ELSE LET e == Head(re)
             rest == Tail(re)
         IN CASE e.k = "bos" ->
                   IF i = 1 THEN Match(rest, s, i, st, caps) ELSE NoMatch
              [] e.k = "eos" ->
                   IF i = Len(s) + 1 THEN Match(rest, s, i, st, caps) ELSE NoMatch
              [] e.k = "lit" ->
                   IF i <= Len(s) /\ s[i] = e.c
                   THEN Match(rest, s, i + 1, st, caps) ELSE NoMatch
              [] e.k = "open" ->
                   Match(rest, s, i, [st EXCEPT ![e.n] = i], caps)
              [] e.k = "close" ->
                   Match(rest, s, i, st,
                         [caps EXCEPT ![e.n] = SubSeq(s, st[e.n], i - 1)])
              [] e.k = "opt" ->
                   LET r == Match(e.body \o rest, s, i, st, caps)
                   IN IF r.ok THEN r ELSE Match(rest, s, i, st, caps)
              [] e.k = "alt" -> MatchAlt(e.alts, 1, rest, s, i, st, caps)
              [] e.k = "rep" ->
                   IF e.greedy
                   THEN RepGreedy(e, RunLen(e.cls, s, i,
                                            IF e.inf THEN Len(s) ELSE e.max),
                                  rest, s, i, st, caps)
                   ELSE RepLazy(e, 0, rest, s, i, st, caps)

\* Regex.FindStringSubmatch: ok is FALSE for Go's nil; a slot that did not
\* take part in the match is the empty string.
FindStringSubmatch(re, s) == Match(re, s, 1, NoStarts, NoSlots)

-----------------------------------------------------------------------------
(* The pattern registry *)

\* the title slot as a greedy one, (?P<title>.*)
TitleGreedy == Cap("title", <<Rep("any", 0, 0, TRUE, TRUE)>>)

Title == Cap("title", <<Rep("any", 0, 0, TRUE, FALSE)>>)          \* (?P<title>.*?)
Year == Cap("year", <<Rep("digit", 4, 4, FALSE, TRUE)>>)          \* (?P<year>\d{4})
Season == Cap("season", <<Rep("digit", 1, 2, FALSE, TRUE)>>)      \* (?P<season>\d{1,2})
Episode == Cap("episode", <<Rep("digit", 1, 3, FALSE, TRUE)>>)    \* (?P<episode>\d{1,3})
\* the compact slot taking three or four digits, (?P<alt_episode>\d{3,4})
AltEpisode34 == Cap("alt_episode", <<Rep("digit", 3, 4, FALSE, TRUE)>>)

AltEpisode == Cap("alt_episode", <<Rep("digit", 3, 3, FALSE, TRUE)>>)  \* (?P<alt_episode>\d{3})
\* (?P<quality>\d+p)
Quality == Cap("quality", <<Rep("digit", 1, 0, TRUE, TRUE), Lit("p")>>)
Source == Cap("source", <<Rep("any", 1, 0, TRUE, FALSE)>>)        \* (?P<source>.+?)
AnyExt == Cap("ext", <<Rep("word", 1, 0, TRUE, TRUE)>>)           \* (?P<ext>\w+)
\* (?P<ext>mp4|mkv|avi|mov|wmv|flv|webm|m4v|mpg|mpeg|3gp)
MediaExt ==
    Cap("ext", <<Alt(<<Lits(<<"m", "p", "4">>), Lits(<<"m", "k", "v">>),
                       Lits(<<"a", "v", "i">>), Lits(<<"m", "o", "v">>),
                       Lits(<<"w", "m", "v">>), Lits(<<"f", "l", "v">>),
                       Lits(<<"w", "e", "b", "m">>), Lits(<<"m", "4", "v">>),
                       Lits(<<"m", "p", "g">>), Lits(<<"m", "p", "e", "g">>),
                       Lits(<<"3", "g", "p">>)>>)>>)

Dot == <<Lit(".")>>
OptQuality == <<Opt(Dot \o Quality)>>       \* (?:\.(?P<quality>\d+p))?
OptSource == <<Opt(Dot \o Source)>>         \* (?:\.(?P<source>.+?))?
OptExt == <<Opt(Dot \o AnyExt)>>            \* (?:\.(?P<ext>\w+))?
SxxExx == <<Lit("S")>> \o Season \o <<Lit("E")>> \o Episode
NxNN == Season \o <<Lit("x")>> \o Episode

compilePatterns == <<
    [Name |-> "TV with Year (SxxExx)", Type |-> "tv",
     Regex |-> <<Bos>> \o Title \o Dot \o Year \o Dot \o SxxExx
               \o OptQuality \o OptSource \o OptExt \o <<Eos>>],
    [Name |-> "TV with Year (xXx format)", Type |-> "tv",
     Regex |-> <<Bos>> \o Title \o Dot \o Year \o Dot \o NxNN
               \o OptQuality \o OptSource \o OptExt \o <<Eos>>],
    [Name |-> "TV without Year (SxxExx)", Type |-> "tv",
     Regex |-> <<Bos>> \o Title \o Dot \o SxxExx
               \o OptQuality \o OptSource \o Dot \o AnyExt \o <<Eos>>],
    [Name |-> "TV without Year (SxxExx, no ext)", Type |-> "tv",
     Regex |-> <<Bos>> \o Title \o Dot \o SxxExx
               \o OptQuality \o OptSource \o <<Eos>>],
    [Name |-> "TV Alternative (xXx format)", Type |-> "tv",
     Regex |-> <<Bos>> \o Title \o Dot \o NxNN
               \o OptQuality \o OptSource \o OptExt \o <<Eos>>],
    [Name |-> "TV Alternative (3-digit format)", Type |-> "tv",
     Regex |-> <<Bos>> \o Title \o Dot \o AltEpisode
               \o OptQuality \o OptSource \o OptExt \o <<Eos>>],
    [Name |-> "Movie", Type |-> "movie",
     Regex |-> <<Bos>> \o Title \o Dot \o Year
               \o OptQuality \o Dot \o Source \o Dot \o MediaExt \o <<Eos>>],
    [Name |-> "Movie (no extension)", Type |-> "movie",
     Regex |-> <<Bos>> \o Title \o Dot \o Year
               \o OptQuality \o OptSource \o <<Eos>>],
    [Name |-> "Movie (no quality)", Type |-> "movie",
     Regex |-> <<Bos>> \o Title \o Dot \o Year
               \o Dot \o Source \o Dot \o MediaExt \o <<Eos>> ] >>

-----------------------------------------------------------------------------
(* Field extractors *)

\* cleanTitle: dots to spaces, whitespace runs to one space, trimmed
cleanTitle(title) ==
    TrimSpace(Join(Fields(ReplaceAll(title, <<".">>, <<" ">>)), <<" ">>))

codecs == << <<"x", "2", "6", "4">>, <<"x", "2", "6", "5">>,
             <<"h", "2", "6", "4">>, <<"h", "2", "6", "5">>,
             <<"h", "e", "v", "c">>, <<"a", "v", "c">>,
             <<"x", "v", "i", "d">>, <<"d", "i", "v", "x">>,
             <<"v", "p", "8">>, <<"v", "p", "9">>, <<"a", "v", "1">>,
             <<"m", "p", "e", "g", "2">>, <<"m", "p", "e", "g", "4">> >>

\* extractCodecFromPart taking the vocabulary member that occurs leftmost in
\* the part instead of the first one in list order
extractCodecLeftmost(part) ==
    LET partLower == ToLower(part)
        found == {c \in 1..Len(codecs) : Index(partLower, codecs[c]) > 0}
    IN IF found = {} THEN Empty
       ELSE LET c == CHOOSE x \in found : \A y \in found :
                         Index(partLower, codecs[x]) <= Index(partLower, codecs[y])
                idx == Index(partLower, codecs[c])
            IN SubSeq(part, idx, idx + Len(codecs[c]) - 1)

\* extractCodecFromPart: the first vocabulary member, in list order, found
\* in the lower-cased part; returned in the part's own casing
extractCodecFromPart(part) ==
    LET partLower == ToLower(part)
        found == {c \in 1..Len(codecs) : Index(partLower, codecs[c]) > 0}
    IN IF found = {} THEN Empty
       ELSE LET c == CHOOSE x \in found : \A y \in found : x <= y
                idx == Index(partLower, codecs[c])
            IN SubSeq(part, idx, idx + Len(codecs[c]) - 1)

\* extractReleaseGroupFromPart that keeps the "-" before the release group
releaseGroupWithDash(part, codec) ==
    LET idx == Index(ToLower(part), ToLower(codec))
    IN IF idx > 0 THEN From(part, idx + Len(codec)) ELSE Empty

\* extractReleaseGroupFromPart: what follows the codec in the part, less one
\* leading "-" and then one leading "."
extractReleaseGroupFromPart(part, codec) ==
    LET idx == Index(ToLower(part), ToLower(codec))
    IN IF idx > 0
       THEN TrimPrefix(TrimPrefix(From(part, idx + Len(codec)), <<"-">>), <<".">>)
       ELSE Empty

\* the loop of extractSourceAndCodec, not searching a part for a codec once
\* one is recorded
RECURSIVE SplitPartsFirstOnly(_, _, _, _)
SplitPartsFirstOnly(parts, p, sourceParts, codec) ==
    IF p > Len(parts) THEN [sourceParts |-> sourceParts, codec |-> codec]
    ELSE LET part == TrimSpace(parts[p])
             codecPart == IF codec = Empty THEN extractCodecFromPart(part)
                          ELSE Empty
             releaseGroup == extractReleaseGroupFromPart(part, codecPart)
         IN IF part = Empty
            THEN SplitPartsFirstOnly(parts, p + 1, sourceParts, codec)
            ELSE IF codecPart /= Empty
            THEN SplitPartsFirstOnly(parts, p + 1,
                                     IF releaseGroup /= Empty
                                     THEN Append(sourceParts, releaseGroup)
                                     ELSE sourceParts,
                                     codecPart)
            ELSE SplitPartsFirstOnly(parts, p + 1, Append(sourceParts, part),
                                     codec)

\* the loop of extractSourceAndCodec without its  if codec == ""  test: the
\* codec of every codec-bearing part overwrites the one recorded
RECURSIVE SplitPartsLastCodec(_, _, _, _)
SplitPartsLastCodec(parts, p, sourceParts, codec) ==
    IF p > Len(parts) THEN [sourceParts |-> sourceParts, codec |-> codec]
    ELSE LET part == TrimSpace(parts[p])
             codecPart == extractCodecFromPart(part)
             releaseGroup == extractReleaseGroupFromPart(part, codecPart)
         IN IF part = Empty
            THEN SplitPartsLastCodec(parts, p + 1, sourceParts, codec)
            ELSE IF codecPart /= Empty
            THEN SplitPartsLastCodec(parts, p + 1,
                                     IF releaseGroup /= Empty
                                     THEN Append(sourceParts, releaseGroup)
                                     ELSE sourceParts,
                                     codecPart)
            ELSE SplitPartsLastCodec(parts, p + 1, Append(sourceParts, part),
                                     codec)

\* the loop of extractSourceAndCodec over parts[p..]
RECURSIVE SplitParts(_, _, _, _)
SplitParts(parts, p, sourceParts, codec) ==
    IF p > Len(parts) THEN [sourceParts |-> sourceParts, codec |-> codec]
    ELSE LET part == TrimSpace(parts[p])
             codecPart == extractCodecFromPart(part)
             releaseGroup == extractReleaseGroupFromPart(part, codecPart)
         IN IF part = Empty
            THEN SplitParts(parts, p + 1, sourceParts, codec)
            ELSE IF codecPart /= Empty
            THEN SplitParts(parts, p + 1,
                            IF releaseGroup /= Empty
                            THEN Append(sourceParts, releaseGroup)
                            ELSE sourceParts,
                            IF codec = Empty THEN codecPart ELSE codec)
            ELSE SplitParts(parts, p + 1, Append(sourceParts, part), codec)

extractSourceAndCodec(comb) ==
    IF comb = Empty THEN [source |-> Empty, codec |-> Empty]
    ELSE LET r == SplitParts(Split(comb, "."), 1, <<>>, Empty)
         IN [source |-> Join(r.sourceParts, <<".">>), codec |-> r.codec]

\* AltCut that takes one digit for the season whatever the length
AltCutOne(alt) == 1

\* where extractSeasonEpisode cuts alt_episode: alt[:1] and alt[1:] for three
\* characters, alt[:2] and alt[2:] for four
AltCut(alt) == IF Len(alt) = 3 THEN 1 ELSE 2

\* extractSeasonEpisode without its last check, that season and episode are
\* both set
extractSeasonEpisodeUnsetAllowed(mm) ==
    LET s == Atoi(mm.season)
        e == Atoi(mm.episode)
        alt == mm.alt_episode
        badSeason == mm.season /= Empty /\ (~s.ok \/ s.n < 1 \/ s.n > 99)
        season1 == IF mm.season /= Empty THEN s.n ELSE 0
        badEpisode == mm.episode /= Empty /\ (~e.ok \/ e.n < 1 \/ e.n > 999)
        episode1 == IF mm.episode /= Empty THEN e.n ELSE 0
        useAlt == alt /= Empty /\ season1 = 0 /\ episode1 = 0
        cut == AltCut(alt)
        as == Atoi(SubSeq(alt, 1, cut))
        ae == Atoi(From(alt, cut + 1))
        split34 == Len(alt) = 3 \/ Len(alt) = 4
        altErr == split34 /\ (~as.ok \/ ~ae.ok)
        season2 == IF useAlt /\ split34 THEN as.n ELSE season1
        episode2 == IF useAlt /\ split34 /\ as.ok THEN ae.n ELSE episode1
        fail == [ok |-> FALSE, season |-> 0, episode |-> 0]
    IN IF badSeason THEN fail
       ELSE IF badEpisode THEN fail
       ELSE IF useAlt /\ (altErr \/ season2 < 1 \/ episode2 < 1) THEN fail
       ELSE [ok |-> TRUE, season |-> season2, episode |-> episode2]

\* extractSeasonEpisode: season and episode from the season / episode /
\* alt_episode slots; ok is FALSE where the code returns an error
extractSeasonEpisode(mm) ==
    LET s == Atoi(mm.season)
        e == Atoi(mm.episode)
        alt == mm.alt_episode
        badSeason == mm.season /= Empty /\ (~s.ok \/ s.n < 1 \/ s.n > 99)
        season1 == IF mm.season /= Empty THEN s.n ELSE 0
        badEpisode == mm.episode /= Empty /\ (~e.ok \/ e.n < 1 \/ e.n > 999)
        episode1 == IF mm.episode /= Empty THEN e.n ELSE 0
        useAlt == alt /= Empty /\ season1 = 0 /\ episode1 = 0
        cut == AltCut(alt)
        as == Atoi(SubSeq(alt, 1, cut))
        ae == Atoi(From(alt, cut + 1))
        split34 == Len(alt) = 3 \/ Len(alt) = 4
        altErr == split34 /\ (~as.ok \/ ~ae.ok)
        season2 == IF useAlt /\ split34 THEN as.n ELSE season1
        episode2 == IF useAlt /\ split34 /\ as.ok THEN ae.n ELSE episode1
        fail == [ok |-> FALSE, season |-> 0, episode |-> 0]
    IN IF badSeason THEN fail
       ELSE IF badEpisode THEN fail
       ELSE IF useAlt /\ (altErr \/ season2 < 1 \/ episode2 < 1) THEN fail
       ELSE IF season2 = 0 \/ episode2 = 0 THEN fail
       ELSE [ok |-> TRUE, season |-> season2, episode |-> episode2]

\* the error extractSeasonEpisode returns; <<>> where it returns nil
seasonEpisodeError(mm) ==
    LET s == Atoi(mm.season)
        e == Atoi(mm.episode)
        alt == mm.alt_episode
    IN IF mm.season /= Empty /\ (~s.ok \/ s.n < 1 \/ s.n > 99)
       THEN <<"invalid season number", mm.season>>
       ELSE IF mm.episode /= Empty /\ (~e.ok \/ e.n < 1 \/ e.n > 999)
       THEN <<"invalid episode number", mm.episode>>
       ELSE IF extractSeasonEpisode(mm).ok THEN <<>>
       ELSE IF alt /= Empty /\ mm.season = Empty /\ mm.episode = Empty
       THEN <<"invalid alternative episode format", alt>>
       ELSE <<"season and episode must be specified for TV shows">>

\* MediaInfo.HasSeasonEpisode
HasSeasonEpisode(info) == info.Season > 0 /\ info.Episode > 0

\* validateMediaInfo without the upper limit on the year
validateNoYearLimit(info) ==
    LET year == Atoi(info.Year)
    IN /\ info.Title /= Empty
       /\ ~(info.Type = "episode" /\ ~HasSeasonEpisode(info))
       /\ info.Year /= Empty => (year.ok /\ year.n >= 1900)

\* validateMediaInfo: TRUE where the code returns nil
validateMediaInfo(info) ==
    LET year == Atoi(info.Year)
    IN /\ info.Title /= Empty
       /\ ~(info.Type = "episode" /\ ~HasSeasonEpisode(info))
       /\ info.Year /= Empty => (year.ok /\ year.n >= 1900 /\ year.n <= 2030)

\* the error validateMediaInfo returns; <<>> where it returns nil
validateError(info) ==
    IF info.Title = Empty THEN <<"title cannot be empty">>
    ELSE IF info.Type = "episode" /\ ~HasSeasonEpisode(info)
    THEN <<"TV episodes must have valid season and episode numbers">>
    ELSE IF ~validateMediaInfo(info) THEN <<"invalid year", info.Year>>
    ELSE <<>>

NoInfo == [Title |-> Empty, Year |-> Empty, Season |-> 0, Episode |-> 0,
           Quality |-> Empty, Source |-> Empty, Codec |-> Empty, Type |-> ""]

\* extractMediaInfo, its end: the record is returned if it validates
Validated(mediaInfo) ==
    IF validateMediaInfo(mediaInfo)
    THEN [ok |-> TRUE, info |-> mediaInfo, err |-> <<>>]
    ELSE [ok |-> FALSE, info |-> NoInfo, err |-> validateError(mediaInfo)]

\* extractMediaInfo, from the answers of the resolver (se) and of the
\* splitter (sc) on: a resolver error is returned at once; else the fields
\* are filled in and validated
Assemble(mm, pattern, se, sc) ==
    IF ~se.ok
    THEN [ok |-> FALSE, info |-> NoInfo, err |-> seasonEpisodeError(mm)]
    ELSE Validated([Title |-> cleanTitle(mm.title),
                    Year |-> mm.year,
                    Season |-> se.season,
                    Episode |-> se.episode,
                    Quality |-> mm.quality,
                    Source |-> sc.source,
                    Codec |-> sc.codec,
                    Type |-> IF pattern.Type = "tv" THEN "episode"
                             ELSE pattern.Type])

\* extractMediaInfo, from the trimmed slots mm on: the resolver is called
\* for a "tv" pattern only, the splitter for a non-empty source slot only
Resolve(mm, pattern) ==
    Assemble(mm, pattern,
             IF pattern.Type = "tv" THEN extractSeasonEpisode(mm)
             ELSE [ok |-> TRUE, season |-> 0, episode |-> 0],
             IF mm.source /= Empty THEN extractSourceAndCodec(mm.source)
             ELSE [source |-> Empty, codec |-> Empty])

\* the slots of a match, each trimmed of surrounding whitespace
TrimSlots(matches) == [n \in SlotNames |-> TrimSpace(matches[n])]

\* extractMediaInfo: the record built from a match of pattern; ok is FALSE
\* where the code returns an error
extractMediaInfo(matches, pattern) == Resolve(TrimSlots(matches), pattern)

-----------------------------------------------------------------------------
(* The dispatcher *)

\* what Parse's loop makes of a rule whose pattern matched: x is the answer
\* of extractMediaInfo
Extracted(x) ==
    [matched |-> TRUE, ok |-> x.ok, info |-> x.info, err |-> x.err]

\* what Parse's loop makes of the match m of pattern
Tried(m, pattern) ==
    IF m.ok THEN Extracted(extractMediaInfo(m.caps, pattern))
    ELSE [matched |-> FALSE, ok |-> FALSE, info |-> NoInfo, err |-> <<>>]

\* one turn of Parse's loop, for pattern i: matched tells whether the rule
\* matched structurally, ok whether its record was accepted
Candidate(i, cleaned) ==
    Tried(FindStringSubmatch(compilePatterns[i].Regex, cleaned),
          compilePatterns[i])

\* the error Parse returns: it names the filename as given
ParseError(name) ==
    [ok |-> FALSE, info |-> NoInfo, rule |-> 0,
     err |-> <<"unable to parse filename", name>>]

RECURSIVE ParseFrom(_, _, _)

\* Turn with  return nil, err  in place of  continue : the first rule that
\* matches decides, accepted or not
TurnFirstMatchDecides(name, cleaned, i, c) ==
    IF c.matched
    THEN (IF c.ok THEN [ok |-> TRUE, info |-> c.info, rule |-> i, err |-> <<>>]
          ELSE ParseError(name))
    ELSE ParseFrom(name, cleaned, i + 1)

\* Turn that keeps the error of a rejected record and returns it when no
\* later rule is accepted
TurnReportsReason(name, cleaned, i, c) ==
    IF c.matched /\ c.ok
    THEN [ok |-> TRUE, info |-> c.info, rule |-> i, err |-> <<>>]
    ELSE IF c.matched /\ ~ParseFrom(name, cleaned, i + 1).ok
    THEN [ok |-> FALSE, info |-> NoInfo, rule |-> 0, err |-> c.err]
    ELSE ParseFrom(name, cleaned, i + 1)

\* the end of a turn of Parse's loop: an accepted record is returned, a
\* rejected one or no match goes on to the next pattern
Turn(name, cleaned, i, c) ==
    IF c.matched /\ c.ok
    THEN [ok |-> TRUE, info |-> c.info, rule |-> i, err |-> <<>>]
    ELSE ParseFrom(name, cleaned, i + 1)

\* Parse's loop from pattern i on; rule is the position of the pattern whose
\* record is returned (not part of the Go value; kept for the properties)
ParseFrom(name, cleaned, i) ==
    IF i > Len(compilePatterns) THEN ParseError(name)
    ELSE Turn(name, cleaned, i, Candidate(i, cleaned))

Parse(name) == ParseFrom(name, cleanFilename(name), 1)

-----------------------------------------------------------------------------
(* The filenames Parse is called with: a title of 0..MaxTitleWords words,  *)
(* then optionally a year token, a season/episode marker, a quality token, *)
(* a source segment and an extension, joined by dots.                      *)

MaxTitleWords == 2

TitleWord == <<"A", "b">>

Titles == {[i \in 1..n |-> TitleWord] : n \in 0..MaxTitleWords}

Years == {Empty, <<"1", "8", "0", "0">>, <<"1", "9", "0", "0">>, <<"2", "0", "3", "0">>, <<"2", "0", "3", "1">>, <<"2", "0", "5", "0">>}

Marker(k, s, e) == [k |-> k, s |-> s, e |-> e]

NoMarker == Marker("none", Empty, Empty)

Markers == {NoMarker,
            Marker("SxxExx", <<"0", "1">>, <<"0", "1">>), Marker("SxxExx", <<"0", "0">>, <<"0", "1">>),
            Marker("SxxExx", <<"0", "1">>, <<"0", "0">>), Marker("SxxExx", <<"1", "0", "0">>, <<"0", "1">>),
            Marker("SxxExx", <<"0", "1">>, <<"1", "0", "0", "0">>), Marker("SxxExx", <<"9", "9">>, <<"9", "9", "9">>),
            Marker("NxNN", <<"1">>, <<"0", "1">>),
            Marker("NNN", <<"4", "5", "1">>, Empty), Marker("NNN", <<"1", "0", "0">>, Empty)}

MarkerText(m) ==
    CASE m.k = "none" -> Empty
      [] m.k = "SxxExx" -> <<"S">> \o m.s \o <<"E">> \o m.e
      [] m.k = "NxNN" -> m.s \o <<"x">> \o m.e
      [] m.k = "NNN" -> m.s

Qualities == {Empty, <<"7", "2", "0", "p">>}

\* a source segment, the codec token embedded in it and the source tokens
\* that remain once the codec is taken out
Segment(text, codec, rest) == [text |-> text, codec |-> codec, rest |-> rest]

NoSegment == Segment(Empty, Empty, Empty)

Segments == {NoSegment,
             Segment(<<"H", "D", "T", "V">>, Empty, <<"H", "D", "T", "V">>),
             Segment(<<"H", "D", "T", "V", ".", "x", "2", "6", "4">>, <<"x", "2", "6", "4">>, <<"H", "D", "T", "V">>),
             Segment(<<"x", "2", "6", "5", "-", "G">>, <<"x", "2", "6", "5">>, <<"G">>)}

Exts == {Empty, <<"m", "k", "v">>, <<"t", "x", "t">>}

Shapes == [title : Titles, year : Years, marker : Markers,
           quality : Qualities, source : Segments, ext : Exts]

NonEmpty(s) == s /= Empty

\* the filename of a shape: the title (even an empty one) and the tokens
\* that are present, joined by dots
Compose(sh) ==
    LET tokens == SelectSeq(<<sh.year, MarkerText(sh.marker), sh.quality,
                              sh.source.text, sh.ext>>, NonEmpty)
    IN Join(<<Join(sh.title, <<".">>)>> \o tokens, <<".">>)

NoResult == [ok |-> FALSE, info |-> NoInfo, rule |-> 0, err |-> <<>>]
NoSplit == [source |-> Empty, codec |-> Empty]
NoResolved == [ok |-> FALSE, season |-> 0, episode |-> 0]
NoMap == [season |-> Empty, episode |-> Empty, alt_episode |-> Empty]

Idle ==
    /\ cleanName = Empty /\ reclean = Empty
    /\ result = NoResult /\ respelled = Empty /\ result2 = NoResult
    /\ matchMap = NoMap /\ resolved = NoResolved
    /\ combined = Empty /\ split = NoSplit

\* the client NewOpenSubtitlesClient returns for a config with the given
\* credentials: no token yet
NewOpenSubtitlesClient(username, password) ==
    [Username |-> username, Password |-> password, token |-> "",
     authToken |-> ""]

NoReply == [op |-> "", err |-> "", wraps |-> "", sent |-> <<>>, got |-> <<>>]

\* the CLI struct with kong's defaults
DefaultCLI ==
    [Path |-> <<".">>, Language |-> <<<<"e", "n">>>>, Config |-> Empty, Search |-> Empty,
     Version |-> FALSE]

NoReturn == [op |-> "", err |-> "", wraps |-> ""]

\* a file system with nothing in it
NoDisk == [kind |-> <<>>, entries |-> <<>>, readable |-> TRUE]

\* the registry is built and no concurrent call is under way
ConcIdle == patterns = compilePatterns /\ calls = <<>>

\* the client is as constructed and has made no call
ApiIdle ==
    /\ client = NewOpenSubtitlesClient("", "")
    /\ wire = <<>> /\ reply = NoReply

\* the CLI is as constructed and has not run
CliIdle ==
    /\ cli = DefaultCLI /\ disk = NoDisk
    /\ trace = <<>> /\ todo = <<>> /\ ret = NoReturn

\* no record has been handed to validateMediaInfo
NoVerdict == [ok |-> FALSE, info |-> NoInfo, err |-> <<>>]

GateIdle == candidate = NoInfo /\ verdict = NoVerdict

\* nothing but the parser's unit calls on names and slots is in use
RestIdle == ConcIdle /\ ApiIdle /\ CliIdle /\ GateIdle

-----------------------------------------------------------------------------
(* Spec: Parse called on every filename of Shapes *)

Init ==
    /\ pc = "ready"
    /\ shape \in Shapes
    /\ filename = Compose(shape)
    /\ Idle
    /\ RestIdle

CallParse ==
    /\ pc = "ready"
    /\ result' = Parse(filename)
    /\ cleanName' = cleanFilename(filename)
    /\ pc' = "parsed"
    /\ UNCHANGED <<concVars, apiVars, cliVars, candidate, verdict>>
    /\ UNCHANGED <<filename, reclean, respelled, result2, matchMap, resolved,
                   combined, split, shape>>

Next == CallParse

Spec == Init /\ [][Next]_vars

-----------------------------------------------------------------------------
(* Properties of Parse *)

Least(S) == CHOOSE i \in S : \A j \in S : i <= j

\* the rules whose record for cleaned is accepted
Accepted(cleaned) ==
    {i \in 1..Len(compilePatterns) : Candidate(i, cleaned).ok}

\* the rules that match cleaned structurally and whose record is rejected
Rejected(cleaned) ==
    {i \in 1..Len(compilePatterns) :
        Candidate(i, cleaned).matched /\ ~Candidate(i, cleaned).ok}

Value(digits) == DigitsValue(digits)

Between(digits, lo, hi) ==
    digits /= Empty /\ Value(digits) >= lo /\ Value(digits) <= hi

\* what Parse must return for name when acc is the set of accepted rules
FirstAccepted(name, cleaned, acc, res) ==
    IF acc = {} THEN res = ParseError(name)
    ELSE /\ res.ok
         /\ res.rule = Least(acc)
         /\ res.info = Candidate(res.rule, cleaned).info
         /\ validateMediaInfo(res.info)

\* C1: Parse applies the nine rules in registry order to the normalized
\* filename and returns the record of the first rule that matches and whose
\* record is accepted; rules that match and are rejected before it do not
\* stop it, and when no rule is accepted the result is the error, never a
\* rejected record.
C1_FirstAcceptedRuleWins ==
    pc = "parsed" =>
        /\ Len(compilePatterns) = 9
        /\ cleanName = cleanFilename(filename)
        /\ FirstAccepted(filename, cleanName, Accepted(cleanName), result)

\* C1's case: a rule matched and was rejected, and a later rule was accepted
C1_Witness ==
    /\ pc = "parsed"
    /\ result.ok
    /\ \E j \in Rejected(cleanName) : j < result.rule

\* C2: every record Parse returns has a non-empty title, kind episode or
\* movie, season in 1..99 and episode in 1..999 for an episode, season and
\* episode both 0 for a movie, and a year that is absent or four digits with
\* a value in 1900..2030.
C2_ReturnedRecordIsValid ==
    (pc = "parsed" /\ result.ok) =>
        /\ result.info.Title /= Empty
        /\ result.info.Type \in {"episode", "movie"}
        /\ result.info.Type = "episode" =>
              /\ result.info.Season \in 1..99
              /\ result.info.Episode \in 1..999
        /\ result.info.Type = "movie" =>
              /\ result.info.Season = 0
              /\ result.info.Episode = 0
        /\ (result.info.Season = 0) <=> (result.info.Episode = 0)
        /\ result.info.Year /= Empty =>
              /\ Len(result.info.Year) = 4
              /\ IsNumeral(result.info.Year)
              /\ Value(result.info.Year) \in 1900..2030

\* C2's case: an episode record with a year was returned
C2_Witness ==
    /\ pc = "parsed"
    /\ result.ok
    /\ result.info.Type = "episode"
    /\ result.info.Year /= Empty

\* Title.YYYY.S##E## with a non-empty title and year, season and episode in
\* range
TVWithYearShape ==
    /\ shape.title /= <<>>
    /\ Between(shape.year, 1900, 2030)
    /\ shape.marker.k = "SxxExx"
    /\ Between(shape.marker.s, 1, 99)
    /\ Between(shape.marker.e, 1, 999)

\* C3: for Title.YYYY.S##E##[.quality][.source][.ext] with year, season and
\* episode in range, Parse returns an episode with that title (dots as
\* spaces), year, season, episode and quality, and, when a codec token is
\* embedded in the source segment, that codec and the remaining source tokens.
C3_TVWithYearParsesExactly ==
    (pc = "parsed" /\ TVWithYearShape) =>
        /\ result.ok
        /\ result.info.Type = "episode"
        /\ result.info.Title = Join(shape.title, <<" ">>)
        /\ result.info.Year = shape.year
        /\ result.info.Season = Value(shape.marker.s)
        /\ result.info.Episode = Value(shape.marker.e)
        /\ result.info.Quality = shape.quality
        /\ shape.source.codec /= Empty =>
              /\ result.info.Codec = shape.source.codec
              /\ result.info.Source = shape.source.rest

\* a titled name whose S##E## marker has season 0 or 100, or episode 0 or
\* 1000
BadMarkerShape ==
    /\ shape.title /= Empty
    /\ shape.marker.k = "SxxExx"
    /\ \/ ~Between(shape.marker.s, 1, 99)
       \/ ~Between(shape.marker.e, 1, 999)

\* C4: a filename whose S##E## marker carries season 0 or 100 or episode 0
\* or 1000 makes Parse fail, whatever the title and the tokens around it.
C4_BadMarkerFails ==
    (pc = "parsed" /\ BadMarkerShape) => ~result.ok

\* a titled movie-shaped or S##E##-shaped name whose year token is outside
\* 1900..2030
BadYearShape ==
    /\ shape.title /= Empty
    /\ shape.year /= Empty
    /\ ~Between(shape.year, 1900, 2030)
    /\ shape.marker.k \in {"none", "SxxExx"}

\* C5: a filename whose 4-digit year token is outside 1900..2030 makes Parse
\* fail, for movie-shaped and for S##E##-shaped names alike.
C5_BadYearFails ==
    (pc = "parsed" /\ BadYearShape) => ~result.ok

-----------------------------------------------------------------------------
(* SpecTokens: Parse called on a title followed by up to MaxTokens tokens  *)
(* in any order, joined by dots                                            *)

MaxTokens == 3

\* a compact marker, one whose episode digits are 00, a year in range, one
\* out of range, the two explicit markers, a quality, a source word, a
\* codec, an extension
Tokens3 == {<<"4", "5", "1">>, <<"1", "0", "0">>}
Tokens4 == {<<"2", "0", "1", "8">>, <<"2", "0", "4", "9">>}
NameTokens ==
    Tokens3 \cup Tokens4
    \cup {<<"S", "0", "1", "E", "0", "2">>, <<"1", "x", "0", "2">>, <<"1", "0", "8", "0", "p">>, <<"S", "r", "c">>, <<"x", "2", "6", "4">>, <<"m", "k", "v">>}

InitTokens ==
    /\ pc = "ready"
    /\ shape \in UNION {[1..n -> NameTokens] : n \in 0..MaxTokens}
    /\ filename = Join(<<TitleWord>> \o shape, <<".">>)
    /\ Idle
    /\ RestIdle

SpecTokens == InitTokens /\ [][Next]_vars

\* the name is the title, a compact marker with a non-zero season digit
\* and non-zero episode digits, and further tokens with a year in range
\* among them
CompactThenYear ==
    /\ Len(shape) >= 2
    /\ shape[1] = <<"4", "5", "1">>
    /\ \E j \in 2..Len(shape) : shape[j] = <<"2", "0", "1", "8">>

\* the record of the compact rule for marker 451
CompactRecord ==
    /\ result.ok
    /\ result.rule = 6
    /\ result.info.Type = "episode"
    /\ result.info.Title = TitleWord
    /\ result.info.Season = 4
    /\ result.info.Episode = 51
    /\ result.info.Year = Empty

\* no token after the compact marker is an explicit marker, so that no rule
\* before the compact one matches
NoExplicitMarker ==
    \A j \in 1..Len(shape) : shape[j] \notin {<<"S", "0", "1", "E", "0", "2">>, <<"1", "x", "0", "2">>}

\* C23: a title, a compact marker and later a year in range, with no
\* explicit marker in the name, give the compact rule's episode record:
\* season the first digit, episode the last two, no year field, and the
\* year token inside source
C23_CompactBeforeMovie ==
    (pc = "parsed" /\ CompactThenYear /\ NoExplicitMarker) =>
        /\ CompactRecord
        /\ Contains(result.info.Source, <<"2", "0", "1", "8">>)

\* the name has no marker of any kind: it is a title and years, quality,
\* source, codec and extension tokens
MovieShaped ==
    \A j \in 1..Len(shape) : shape[j] \in Tokens4 \cup {<<"1", "0", "8", "0", "p">>, <<"S", "r", "c">>, <<"x", "2", "6", "4">>, <<"m", "k", "v">>}

\* the place of the leftmost 4-digit token, 0 when there is none
LeftmostYear ==
    IF \A j \in 1..Len(shape) : shape[j] \notin Tokens4 THEN 0
    ELSE Least({j \in 1..Len(shape) : shape[j] \in Tokens4})

\* C24: in a movie-shaped name the year slot is the leftmost 4-digit token:
\* a record that is returned carries it as its year, and when it is outside
\* 1900..2030 Parse fails, whatever follows it, a year in range included:
\* no rule is tried with a later token as the year
C24_LeftmostYearDecides ==
    (pc = "parsed" /\ MovieShaped /\ LeftmostYear /= 0) =>
        /\ result.ok => result.info.Year = shape[LeftmostYear]
        /\ shape[LeftmostYear] = <<"2", "0", "4", "9">> =>
              /\ ~result.ok
              /\ result.err = <<"unable to parse filename", filename>>

\* Ab.2049.2018.mkv was rejected
C24_Witness ==
    /\ pc = "parsed"
    /\ shape = <<<<"2", "0", "4", "9">>, <<"2", "0", "1", "8">>, <<"m", "k", "v">>>>
    /\ ~result.ok

\* C25: Title.YYYY.Q.ext with a year in range, a quality Q, a media
\* extension and no source segment gives a movie record with quality Q and
\* empty source and codec
C25_QualityNotSource ==
    (pc = "parsed" /\ shape = <<<<"2", "0", "1", "8">>, <<"1", "0", "8", "0", "p">>, <<"m", "k", "v">>>>) =>
        /\ result.ok
        /\ result.info.Type = "movie"
        /\ result.info.Title = TitleWord
        /\ result.info.Year = <<"2", "0", "1", "8">>
        /\ result.info.Quality = <<"1", "0", "8", "0", "p">>
        /\ result.info.Source = Empty
        /\ result.info.Codec = Empty

\* the name ends in the extension token mkv and has no other token mkv
EndsInExtension ==
    /\ Len(shape) >= 1
    /\ shape[Len(shape)] = <<"m", "k", "v">>
    /\ \A j \in 1..(Len(shape) - 1) : shape[j] /= <<"m", "k", "v">>

\* C26: the extension of an accepted name that ends in a media extension
\* never appears in the record's source
C26_ExtensionNotInSource ==
    (pc = "parsed" /\ result.ok /\ EndsInExtension) =>
        ~Contains(result.info.Source, <<"m", "k", "v">>)

\* the alt_episode slot of the match m, as the resolver gets it, is absent
\* or three digits
ThreeDigitSlot(m) ==
    m.ok =>
        \/ TrimSlots(m.caps).alt_episode = Empty
        \/ /\ Len(TrimSlots(m.caps).alt_episode) = 3
           /\ IsNumeral(TrimSlots(m.caps).alt_episode)

\* C28: whatever rule matches the name, the alt_episode slot the resolver
\* gets is three digits (or absent); a record of the compact rule has season
\* in 1..9 and episode in 1..99; and no episode record has the first two
\* and last two digits of a 4-digit token of the name as season and episode
C28_CompactSlotIsThreeDigits ==
    pc = "parsed" =>
        /\ \A i \in 1..Len(compilePatterns) :
              ThreeDigitSlot(FindStringSubmatch(compilePatterns[i].Regex,
                                                cleanName))
        /\ (result.ok /\ result.rule = 6) =>
              /\ result.info.Season \in 1..9
              /\ result.info.Episode \in 1..99
        /\ (result.ok /\ result.info.Type = "episode") =>
              \A j \in 1..Len(shape) :
                 shape[j] \in Tokens4 =>
                    ~(/\ result.info.Season = Value(SubSeq(shape[j], 1, 2))
                      /\ result.info.Episode = Value(SubSeq(shape[j], 3, 4)))

\* Ab.451.2018 was parsed as season 4, episode 51: the compact slot was 451
\* and the 4-digit token was left alone
C28_Witness ==
    /\ pc = "parsed"
    /\ shape = <<<<"4", "5", "1">>, <<"2", "0", "1", "8">>>>
    /\ result.ok /\ result.rule = 6
    /\ result.info.Season = 4 /\ result.info.Episode = 51

-----------------------------------------------------------------------------
(* SpecRespell: one dot of a filename respelled as a run of spaces and     *)
(* dots, and Parse called on both spellings                                *)

MaxRun == 2

\* the runs of spaces and dots of 1..MaxRun characters
Runs == UNION {[1..n -> {" ", "."}] : n \in 1..MaxRun}

Prefixes == {Empty, <<"d", ".", "r", "/">>}

RespellShapes ==
    {sh \in Shapes :
        /\ Len(sh.title) = 1
        /\ sh.year \in {Empty, <<"2", "0", "3", "0">>}
        /\ sh.marker \in {NoMarker,
                          Marker("SxxExx", <<"0", "1">>, <<"0", "1">>),
                          Marker("NNN", <<"4", "5", "1">>, Empty),
                          Marker("NNN", <<"1", "0", "0">>, Empty)}
        /\ sh.ext /= <<"t", "x", "t">>}

InitRespell ==
    /\ pc = "ready"
    /\ shape \in RespellShapes
    /\ \E dir \in Prefixes : filename = dir \o Compose(shape)
    /\ Idle
    /\ RestIdle

\* the dot at position i is written as run instead
Respell ==
    /\ pc = "ready"
    /\ \E i \in 1..Len(filename), run \in Runs :
          /\ filename[i] = "."
          /\ respelled' = SubSeq(filename, 1, i - 1) \o run \o From(filename, i + 1)
    /\ pc' = "respelled"
    /\ UNCHANGED <<concVars, apiVars, cliVars, candidate, verdict>>
    /\ UNCHANGED <<filename, cleanName, reclean, result, result2, matchMap,
                   resolved, combined, split, shape>>

ParseBoth ==
    /\ pc = "respelled"
    /\ result' = Parse(filename)
    /\ result2' = Parse(respelled)
    /\ cleanName' = cleanFilename(filename)
    /\ reclean' = cleanFilename(respelled)
    /\ pc' = "parsed"
    /\ UNCHANGED <<concVars, apiVars, cliVars, candidate, verdict>>
    /\ UNCHANGED <<filename, respelled, matchMap, resolved, combined, split,
                   shape>>

NextRespell == Respell \/ ParseBoth

SpecRespell == InitRespell /\ [][NextRespell]_vars

\* C6: respelling a dot separator as a space, or as a run of spaces and
\* dots, does not change what Parse makes of the filename: both spellings
\* normalize to the same string and give the same record, or both fail.
C6_RespellingKeepsOutcome ==
    pc = "parsed" =>
        /\ reclean = cleanName
        /\ result2.ok = result.ok
        /\ result2.info = result.info
        /\ result2.rule = result.rule

\* C6's case: a dot of a filename that parses was respelled with a space
C6_Witness ==
    /\ pc = "parsed"
    /\ result.ok
    /\ respelled /= filename
    /\ \E i \in 1..Len(respelled) : respelled[i] = " "

\* the errors with which the rules that match cleaned reject their record
Reasons(cleaned) ==
    {Candidate(i, cleaned).err : i \in 1..Len(compilePatterns)} \ {<<>>}

\* what C13 requires of the result res of Parse(name)
RecordOrAggregateError(name, res) ==
    /\ res.ok => (res.err = <<>> /\ res.info /= NoInfo)
    /\ ~res.ok => /\ res.info = NoInfo
                  /\ res.err = <<"unable to parse filename", name>>
                  /\ res.err \notin Reasons(cleanFilename(name))

\* C13: Parse returns a record and no error, or no record and the one
\* "unable to parse filename" error, which names the filename as it was
\* given (path and spaces included); the error with which a rule rejected
\* its record is never the one returned.
C13_OneAggregateError ==
    pc = "parsed" =>
        /\ RecordOrAggregateError(filename, result)
        /\ RecordOrAggregateError(respelled, result2)

\* C13's case: a name under a directory, written with a space, that a rule
\* matched and rejected, and that no rule accepted
C13_Witness ==
    /\ pc = "parsed"
    /\ ~result2.ok
    /\ Reasons(reclean) /= {}
    /\ respelled /= reclean
    /\ \E i \in 1..Len(respelled) : respelled[i] = "/"
    /\ \E i \in 1..Len(respelled) : respelled[i] = " "
    /\ result2.err = <<"unable to parse filename", respelled>>

-----------------------------------------------------------------------------
(* SpecAppend: Parse called on a filename without extension and on the     *)
(* same name with .mkv appended                                            *)

InitAppend ==
    /\ pc = "ready"
    /\ shape \in {sh \in Shapes : sh.ext = Empty}
    /\ filename = Compose(shape)
    /\ Idle
    /\ RestIdle

\* the same name with the extension
AppendExtension ==
    /\ pc = "ready"
    /\ respelled' = filename \o <<".", "m", "k", "v">>
    /\ pc' = "respelled"
    /\ UNCHANGED <<concVars, apiVars, cliVars, candidate, verdict>>
    /\ UNCHANGED <<filename, cleanName, reclean, result, result2, matchMap,
                   resolved, combined, split, shape>>

NextAppend == AppendExtension \/ ParseBoth

SpecAppend == InitAppend /\ [][NextAppend]_vars

\* Title[.YYYY].S##E##[.quality].Source.Codec: a titled name with a marker
\* in range, a year in range or none, and a source segment whose last token
\* is a bare codec
TVEndingInCodec ==
    /\ shape.title /= Empty
    /\ shape.year = Empty \/ Between(shape.year, 1900, 2030)
    /\ shape.marker.k = "SxxExx"
    /\ Between(shape.marker.s, 1, 99)
    /\ Between(shape.marker.e, 1, 999)
    /\ shape.source.text = <<"H", "D", "T", "V", ".", "x", "2", "6", "4">>

\* C27: for an extensionless TV name that ends in a bare codec, Parse returns
\* the source and codec it returns for the name with .mkv appended: the
\* tokens before the codec, and the codec
C27_LastTokenNotExtension ==
    (pc = "parsed" /\ TVEndingInCodec) =>
        /\ result.ok /\ result2.ok
        /\ result.info.Source = result2.info.Source
        /\ result.info.Codec = result2.info.Codec
        /\ result.info.Source = <<"H", "D", "T", "V">>
        /\ result.info.Codec = <<"x", "2", "6", "4">>

-----------------------------------------------------------------------------
(* SpecClean: cleanFilename called on every string of up to MaxCleanLen    *)
(* characters, and once more on what it returned                           *)

MaxCleanLen == 4

CleanAlphabet == {"a", "B", ".", " ", "\t", "/"}

CleanInputs == UNION {[1..n -> CleanAlphabet] : n \in 0..MaxCleanLen}

InitClean ==
    /\ pc = "ready"
    /\ filename \in CleanInputs
    /\ shape = Empty
    /\ Idle
    /\ RestIdle

CallCleanFilename ==
    /\ pc = "ready"
    /\ cleanName' = cleanFilename(filename)
    /\ pc' = "cleaned"
    /\ UNCHANGED <<concVars, apiVars, cliVars, candidate, verdict>>
    /\ UNCHANGED <<filename, reclean, result, respelled, result2, matchMap,
                   resolved, combined, split, shape>>

CallCleanFilenameAgain ==
    /\ pc = "cleaned"
    /\ reclean' = cleanFilename(cleanName)
    /\ pc' = "recleaned"
    /\ UNCHANGED <<concVars, apiVars, cliVars, candidate, verdict>>
    /\ UNCHANGED <<filename, cleanName, result, respelled, result2, matchMap,
                   resolved, combined, split, shape>>

NextClean == CallCleanFilename \/ CallCleanFilenameAgain

SpecClean == InitClean /\ [][NextClean]_vars

NoSlash(s) == \A i \in 1..Len(s) : s[i] /= "/"

Greatest(S) == CHOOSE i \in S : \A j \in S : j <= i

\* the final path segment of path: path less its trailing slashes, from its
\* last slash on; "." for the empty path and "/" for a path of slashes only
FinalSegment(path) ==
    LET n == Greatest({k \in 0..Len(path) : k = 0 \/ path[k] /= "/"})
        m == Greatest({k \in 0..n : NoSlash(SubSeq(path, n - k + 1, n))})
    IN IF path = Empty THEN <<".">>
       ELSE IF n = 0 THEN <<"/">>
       ELSE SubSeq(path, n - m + 1, n)

\* s with every run of characters of seps written as a single dot
RECURSIVE Squeeze(_, _, _)
Squeeze(s, i, seps) ==
    IF i > Len(s) THEN Empty
    ELSE IF s[i] \notin seps THEN <<s[i]>> \o Squeeze(s, i + 1, seps)
    ELSE IF i > 1 /\ s[i - 1] \in seps THEN Squeeze(s, i + 1, seps)
    ELSE <<".">> \o Squeeze(s, i + 1, seps)

Normalized(s) ==
    /\ s /= Empty
    /\ \A i \in 1..Len(s) : s[i] \notin {"/", " "}
    /\ \A i \in 1..(Len(s) - 1) : ~(s[i] = "." /\ s[i + 1] = ".")

\* C8: cleanFilename is idempotent, and returns a normalized basename
\* unchanged.
C8_CleanFilenameIdempotent ==
    /\ pc = "recleaned" => reclean = cleanName
    /\ (pc /= "ready" /\ Normalized(filename)) => cleanName = filename

\* C8's case: a name that cleanFilename changes, cleaned twice
C8_Witness ==
    /\ pc = "recleaned"
    /\ cleanName /= filename
    /\ \E i \in 1..Len(filename) : filename[i] = " "
    /\ reclean = cleanName

-----------------------------------------------------------------------------
(* SpecResolver: extractSeasonEpisode called on slots                      *)

MaxAltLen == 5

AltDigits == {"0", "1", "2", "3", "4", "5"}

AltSlots == UNION {[1..n -> AltDigits] : n \in 0..MaxAltLen}

SeasonSlots ==
    {Empty, <<"0">>, <<"1">>, <<"9", "9">>, <<"1", "0", "0">>, <<"S", "1">>,
     <<"+", "5">>}

EpisodeSlots ==
    {Empty, <<"0">>, <<"1">>, <<"9", "9", "9">>, <<"1", "0", "0", "0">>,
     <<"E", "1">>, <<"-", "1">>}

ResolverInputs ==
    {[season |-> Empty, episode |-> Empty, alt_episode |-> a] : a \in AltSlots}
    \cup [season : SeasonSlots, episode : EpisodeSlots,
          alt_episode : {Empty, <<"3", "1", "5">>}]

InitResolver ==
    /\ pc = "ready"
    /\ shape = Empty
    /\ filename = Empty
    /\ cleanName = Empty /\ reclean = Empty
    /\ result = NoResult /\ respelled = Empty /\ result2 = NoResult
    /\ matchMap \in ResolverInputs
    /\ resolved = NoResolved
    /\ combined = Empty /\ split = NoSplit
    /\ RestIdle

CallExtractSeasonEpisode ==
    /\ pc = "ready"
    /\ resolved' = extractSeasonEpisode(matchMap)
    /\ pc' = "resolved"
    /\ UNCHANGED <<concVars, apiVars, cliVars, candidate, verdict>>
    /\ UNCHANGED <<filename, cleanName, reclean, result, respelled, result2,
                   matchMap, combined, split, shape>>

NextResolver == CallExtractSeasonEpisode

SpecResolver == InitResolver /\ [][NextResolver]_vars

\* what the resolver must answer for season s and episode e
Answer(s, e) ==
    IF s >= 1 /\ e >= 1 THEN [ok |-> TRUE, season |-> s, episode |-> e]
    ELSE [ok |-> FALSE, season |-> 0, episode |-> 0]

\* C9: given only an alt_episode slot of digits, the resolver answers season
\* = first digit, episode = last two digits for three digits, and season =
\* first two digits, episode = last two digits for four; it fails for any
\* other length and whenever that season or episode is 0.
C9_CompactEpisodeSplit ==
    (pc = "resolved" /\ matchMap.season = Empty /\ matchMap.episode = Empty) =>
        LET d == [i \in 1..Len(matchMap.alt_episode) |->
                      DigitVal(matchMap.alt_episode[i])]
        IN CASE Len(d) = 3 -> resolved = Answer(d[1], 10 * d[2] + d[3])
             [] Len(d) = 4 ->
                  resolved = Answer(10 * d[1] + d[2], 10 * d[3] + d[4])
             [] OTHER -> ~resolved.ok

\* C9's case: 1024 resolved as season 10, episode 24
C9_Witness ==
    /\ pc = "resolved"
    /\ matchMap = [season |-> Empty, episode |-> Empty, alt_episode |-> <<"1", "0", "2", "4">>]
    /\ resolved = [ok |-> TRUE, season |-> 10, episode |-> 24]

\* an explicit slot that strconv.Atoi rejects or whose number is not in
\* lo..hi
NotWithin(slot, lo, hi) ==
    /\ slot /= Empty
    /\ ~Atoi(slot).ok \/ Atoi(slot).n < lo \/ Atoi(slot).n > hi

\* a season or episode slot is missing and the alt_episode slot does not
\* stand in for both: it is empty, or the other slot is there
LeftUnset(mm) ==
    /\ mm.season = Empty \/ mm.episode = Empty
    /\ ~(mm.season = Empty /\ mm.episode = Empty /\ mm.alt_episode /= Empty)

\* C21: the resolver fails when an explicit season slot is not a number in
\* 1..99 or an explicit episode slot is not a number in 1..999, and when
\* season or episode is still unset after the three slots were examined; it
\* succeeds only with season >= 1 and episode >= 1, and with both explicit
\* slots in range it answers their numbers
C21_ResolverFailures ==
    pc = "resolved" =>
        /\ (NotWithin(matchMap.season, 1, 99)
            \/ NotWithin(matchMap.episode, 1, 999)) => ~resolved.ok
        /\ LeftUnset(matchMap) => ~resolved.ok
        /\ resolved.ok => (resolved.season >= 1 /\ resolved.episode >= 1)
        /\ ~resolved.ok => resolved = NoResolved
        /\ (matchMap.season /= Empty /\ matchMap.episode /= Empty
            /\ ~NotWithin(matchMap.season, 1, 99)
            /\ ~NotWithin(matchMap.episode, 1, 999)) =>
              resolved = [ok |-> TRUE, season |-> Atoi(matchMap.season).n,
                          episode |-> Atoi(matchMap.episode).n]

\* a season slot in range, no episode slot, and an alt_episode slot that is
\* not consulted: the resolver has failed
C21_Witness ==
    /\ pc = "resolved"
    /\ matchMap = [season |-> <<"1">>, episode |-> Empty,
                   alt_episode |-> <<"3", "1", "5">>]
    /\ ~resolved.ok

-----------------------------------------------------------------------------
(* SpecGate: extractMediaInfo's last step, validateMediaInfo, called on    *)
(* assembled records                                                       *)

GateTitles == {Empty, <<"A">>}

GateYears ==
    {Empty, <<"1", "8", "9", "9">>, <<"1", "9", "0", "0">>,
     <<"2", "0", "3", "0">>, <<"2", "0", "3", "1">>, <<"2", "0", "x", "0">>}

\* the records: every kind, seasons and episodes at and on both sides of
\* the limits
Candidates ==
    [Title : GateTitles, Year : GateYears, Season : {-1, 0, 1, 99, 100},
     Episode : {0, 1, 999, 1000}, Quality : {Empty}, Source : {Empty},
     Codec : {Empty}, Type : {"episode", "movie"}]

InitGate ==
    /\ pc = "ready"
    /\ shape = Empty /\ filename = Empty /\ Idle
    /\ ConcIdle /\ ApiIdle /\ CliIdle
    /\ candidate \in Candidates
    /\ verdict = NoVerdict

CallValidateMediaInfo ==
    /\ pc = "ready"
    /\ verdict' = Validated(candidate)
    /\ pc' = "validated"
    /\ UNCHANGED <<concVars, apiVars, cliVars>>
    /\ UNCHANGED <<filename, cleanName, reclean, result, respelled, result2,
                   matchMap, resolved, combined, split, shape, candidate>>

NextGate == CallValidateMediaInfo

SpecGate == InitGate /\ [][NextGate]_vars

\* C22: the validator rejects every episode record whose season is outside
\* 1..99 or whose episode is outside 1..999, every record with an empty
\* title, and every record whose year is present but not an integer in
\* 1900..2030
C22_ValidatorIsFinalGate ==
    (pc = "validated"
     /\ \/ candidate.Title = Empty
        \/ /\ candidate.Type = "episode"
           /\ candidate.Season \notin 1..99 \/ candidate.Episode \notin 1..999
        \/ NotWithin(candidate.Year, 1900, 2030)) =>
        ~verdict.ok

-----------------------------------------------------------------------------
(* SpecSplit: extractSourceAndCodec called on up to MaxParts tokens joined *)
(* by dots                                                                 *)

MaxParts == 3

SplitTokens == {Empty, <<"S", "r", "c">>, <<" ", "b">>, <<"x", "2", "6", "5">>, <<"H", "E", "V", "C", "-", "G">>, <<"a", "x", "2", "6", "4">>,
                <<"a", "v", "c", "X", "2", "6", "4", "-", "-", "G">>}

InitSplit ==
    /\ pc = "ready"
    /\ shape \in UNION {[1..n -> SplitTokens] : n \in 0..MaxParts}
    /\ combined = Join(shape, <<".">>)
    /\ filename = Empty
    /\ cleanName = Empty /\ reclean = Empty
    /\ result = NoResult /\ respelled = Empty /\ result2 = NoResult
    /\ matchMap = NoMap /\ resolved = NoResolved
    /\ split = NoSplit
    /\ RestIdle

CallExtractSourceAndCodec ==
    /\ pc = "ready"
    /\ split' = extractSourceAndCodec(combined)
    /\ pc' = "split"
    /\ UNCHANGED <<concVars, apiVars, cliVars, candidate, verdict>>
    /\ UNCHANGED <<filename, cleanName, reclean, result, respelled, result2,
                   matchMap, resolved, combined, shape>>

NextSplit == CallExtractSourceAndCodec

SpecSplit == InitSplit /\ [][NextSplit]_vars

\* no codec-vocabulary member occurs in tok, whatever the case
CodecFree(tok) ==
    \A c \in 1..Len(codecs) : ~Contains(ToLower(tok), codecs[c])

\* tok is a codec-vocabulary member, whatever the case
IsCodecToken(tok) == \E c \in 1..Len(codecs) : ToLower(tok) = codecs[c]

\* tok is codec-GROUP: a codec, a dash and a non-empty codec-free group
IsCodecDashGroup(tok) ==
    LET dash == Index(tok, <<"-">>)
    IN /\ dash > 1
       /\ IsCodecToken(SubSeq(tok, 1, dash - 1))
       /\ From(tok, dash + 1) /= Empty
       /\ CodecFree(From(tok, dash + 1))

Trimmed(toks) == [i \in 1..Len(toks) |-> TrimSpace(toks[i])]

\* what the four cases of C10 require of the answer, the tokens of a
\* codec-free input being taken as toks(shape)
SplitCases(toks) ==
    /\ (\A i \in 1..Len(shape) : CodecFree(shape[i])) =>
          split = [source |-> Join(SelectSeq(toks, NonEmpty), <<".">>),
                   codec |-> Empty]
    /\ (Len(shape) = 1 /\ IsCodecToken(shape[1])) =>
          split = [source |-> Empty, codec |-> shape[1]]
    /\ combined = Empty => split = [source |-> Empty, codec |-> Empty]
    /\ (Len(shape) = 2 /\ CodecFree(shape[1]) /\ toks[1] /= Empty
          /\ IsCodecDashGroup(shape[2])) =>
          split = [source |-> toks[1] \o <<".">>
                                \o From(shape[2], Index(shape[2], <<"-">>) + 1),
                   codec |-> SubSeq(shape[2], 1, Index(shape[2], <<"-">>) - 1)]

\* C10 as stated: an input without a codec comes back as its non-empty
\* tokens joined by dots, with no codec; a lone codec token as that codec and
\* no source; the empty string as nothing; Source.codec-GROUP as source
\* Source.GROUP and the codec.
C10_SplitterEdgeCases == pc = "split" => SplitCases(shape)

\* C10, amended: the same, the tokens being trimmed of surrounding
\* whitespace first and those empty once trimmed dropped.
C10_SplitterEdgeCasesTrimmed == pc = "split" => SplitCases(Trimmed(shape))

\* C10's case: Src.HEVC-G split into source Src.G and codec HEVC
C10_Witness ==
    /\ pc = "split"
    /\ combined = <<"S", "r", "c", ".", "H", "E", "V", "C", "-", "G">>
    /\ split = [source |-> <<"S", "r", "c", ".", "G">>, codec |-> <<"H", "E", "V", "C">>]

\* the tokens the splitter looks at: those of shape, trimmed, less the empty
\* ones
Tokens == SelectSeq(Trimmed(shape), NonEmpty)

\* the positions of Tokens that contain a codec-vocabulary member
Bearing == {i \in 1..Len(Tokens) : ~CodecFree(Tokens[i])}

\* where the first vocabulary member (in list order) contained in tok
\* starts in tok, and its length
MemberOf(tok) ==
    LET c == Least({x \in 1..Len(codecs) : Contains(ToLower(tok), codecs[x])})
        n == Len(codecs[c])
    IN [at |-> Least({i \in 1..Len(tok) :
                        /\ i + n - 1 <= Len(tok)
                        /\ ToLower(SubSeq(tok, i, i + n - 1)) = codecs[c]}),
        len |-> n]

\* that member as tok spells it
CodecIn(tok) ==
    SubSeq(tok, MemberOf(tok).at, MemberOf(tok).at + MemberOf(tok).len - 1)

\* what follows that member in tok, less one leading "-"
Fragment(tok) ==
    LET after == SubSeq(tok, MemberOf(tok).at + MemberOf(tok).len, Len(tok))
    IN IF after /= Empty /\ Head(after) = "-" THEN Tail(after) ELSE after

\* what a token leaves in source: itself when codec-free, else its fragment
\* when there is one
Emit(tok) ==
    IF CodecFree(tok) THEN <<tok>>
    ELSE IF Fragment(tok) = Empty THEN <<>> ELSE <<Fragment(tok)>>

RECURSIVE EmitAll(_)
EmitAll(toks) ==
    IF toks = <<>> THEN <<>> ELSE Emit(Head(toks)) \o EmitAll(Tail(toks))

\* C11 as stated: once a codec is recorded from the first codec-bearing
\* token, every later token goes to source unchanged, codec-bearing or not.
C11_LaterTokensKeptWhole ==
    (pc = "split" /\ Bearing /= {}) =>
        LET k == Least(Bearing)
        IN /\ split.codec = CodecIn(Tokens[k])
           /\ split.source =
                 Join(EmitAll(SubSeq(Tokens, 1, k))
                        \o SubSeq(Tokens, k + 1, Len(Tokens)), <<".">>)

\* C11, amended: once a codec is recorded from the first codec-bearing
\* token, the recorded codec never changes; a later token goes to source
\* unchanged only when it contains no codec-vocabulary member, and a later
\* codec-bearing token is still replaced by its release-group fragment or
\* dropped.
C11_LaterCodecFreeTokensKeptWhole ==
    (pc = "split" /\ Bearing /= {}) =>
        LET k == Least(Bearing)
            later == SubSeq(Tokens, k + 1, Len(Tokens))
        IN /\ split.codec = CodecIn(Tokens[k])
           /\ split.source =
                 Join(EmitAll(SubSeq(Tokens, 1, k))
                        \o EmitAll(later), <<".">>)

\* C11's case: a codec-free token and a codec-bearing one after the token
\* the codec was taken from
C11_Witness ==
    /\ pc = "split"
    /\ shape = <<<<"x", "2", "6", "5">>, <<"S", "r", "c">>, <<"H", "E", "V", "C", "-", "G">>>>
    /\ split = [source |-> <<"S", "r", "c", ".", "G">>, codec |-> <<"x", "2", "6", "5">>]

\* C12: with several codec-bearing tokens the codec is the match from the
\* first of them, and each of them is replaced in source by its fragment or
\* dropped; Src.x265.HEVC-G gives source Src.G and codec x265.
C12_FirstCodecOfSeveral ==
    (pc = "split" /\ Cardinality(Bearing) >= 2) =>
        /\ split.codec = CodecIn(Tokens[Least(Bearing)])
        /\ split.source = Join(EmitAll(Tokens), <<".">>)
        /\ combined = <<"S", "r", "c", ".", "x", "2", "6", "5", ".", "H", "E", "V", "C", "-", "G">> =>
              split = [source |-> <<"S", "r", "c", ".", "G">>, codec |-> <<"x", "2", "6", "5">>]

\* C12's case: Src.x265.HEVC-G
C12_Witness ==
    /\ pc = "split"
    /\ combined = <<"S", "r", "c", ".", "x", "2", "6", "5", ".", "H", "E", "V", "C", "-", "G">>
    /\ Cardinality(Bearing) = 2
    /\ split.codec = <<"x", "2", "6", "5">>

\* C20: a codec-bearing token gives as codec the first vocabulary member (in
\* list order) it contains, in the token's casing; what follows it, less one
\* leading "-", replaces the token in source when non-empty, else the token
\* is dropped; what precedes it is dropped; the other tokens keep their
\* order.
C20_CodecTokenRewritten ==
    pc = "split" =>
        /\ split.source = Join(EmitAll(Tokens), <<".">>)
        /\ split.codec = IF Bearing = {} THEN Empty
                         ELSE CodecIn(Tokens[Least(Bearing)])
        /\ \A i \in Bearing :
              /\ ToLower(CodecIn(Tokens[i])) \in Range(codecs)
              /\ \A c \in 1..Len(codecs) :
                    Contains(ToLower(Tokens[i]), codecs[c]) =>
                        \E b \in 1..c : codecs[b] = ToLower(CodecIn(Tokens[i]))

\* C20's case: a token holding avc before X264: the codec is X264 in its own
\* casing, "avc" is dropped and "-G" is what is left of "--G"
C20_Witness ==
    /\ pc = "split"
    /\ shape = <<<<"S", "r", "c">>, <<"a", "v", "c", "X", "2", "6", "4", "-", "-", "G">>, <<" ", "b">>>>
    /\ split = [source |-> <<"S", "r", "c", ".", "-", "G", ".", "b">>, codec |-> <<"X", "2", "6", "4">>]

-----------------------------------------------------------------------------
(* The OpenSubtitles client *)

\* a request as it leaves the client: its method and path, the token the
\* client holds when it sends it and the token resty attaches to it
Request(path, c) == [req |-> path, token |-> c.token, bearer |-> c.authToken]

\* a response: err is a transport error (no response at all), code the HTTP
\* status, Status and Token the login body, found the number of subtitles
\* in a search body, Link the link of a download body
Response(code) ==
    [err |-> FALSE, code |-> code, Status |-> 0, Token |-> "", found |-> 0,
     Link |-> ""]

TransportError == [Response(0) EXCEPT !.err = TRUE]

\* what a call has done when it returns: the client as it leaves it, the
\* requests it sent and the responses it got, its error ("" for nil) and the
\* error that one wraps
Returned(c, sent, got, err, wraps) ==
    [client |-> c, sent |-> sent, got |-> got, err |-> err, wraps |-> wraps]

\* Authenticate that stores the token of any 200 response, whatever the
\* status in its body
AuthenticateAnyBody(c, login) ==
    IF c.Username = "" \/ c.Password = ""
    THEN Returned(c, <<>>, <<>>,
                  "username and password are required for authentication", "")
    ELSE IF login.err
    THEN Returned(c, <<Request("POST /login", c)>>, <<login>>,
                  "authentication request failed", "transport")
    ELSE IF login.code /= 200
    THEN Returned(c, <<Request("POST /login", c)>>, <<login>>,
                  "authentication failed with status", "")
    ELSE Returned([c EXCEPT !.token = login.Token, !.authToken = login.Token],
                  <<Request("POST /login", c)>>, <<login>>, "", "")

\* Authenticate: login is the server's answer to POST /login
Authenticate(c, login) ==
    IF c.Username = "" \/ c.Password = ""
    THEN Returned(c, <<>>, <<>>,
                  "username and password are required for authentication", "")
    ELSE IF login.err
    THEN Returned(c, <<Request("POST /login", c)>>, <<login>>,
                  "authentication request failed", "transport")
    ELSE IF login.code /= 200
    THEN Returned(c, <<Request("POST /login", c)>>, <<login>>,
                  "authentication failed with status", "")
    ELSE IF login.Status /= 200
    THEN Returned(c, <<Request("POST /login", c)>>, <<login>>,
                  "authentication failed: invalid credentials", "")
    ELSE Returned([c EXCEPT !.token = login.Token, !.authToken = login.Token],
                  <<Request("POST /login", c)>>, <<login>>, "", "")

\* the start of Search and of Download: Authenticate is called when no token
\* is held
Authenticated(c, login) ==
    IF c.token = "" THEN Authenticate(c, login)
    ELSE Returned(c, <<>>, <<>>, "", "")

\* Search that keeps the token when the server answers 401
SearchRequestKeepsToken(a, answer) ==
    IF answer.err
    THEN Returned(a.client, Append(a.sent, Request("GET /subtitles", a.client)),
                  Append(a.got, answer), "search request failed", "transport")
    ELSE IF answer.code = 401
    THEN Returned(a.client,
                  Append(a.sent, Request("GET /subtitles", a.client)),
                  Append(a.got, answer),
                  "authentication expired, please retry", "")
    ELSE IF answer.code /= 200
    THEN Returned(a.client, Append(a.sent, Request("GET /subtitles", a.client)),
                  Append(a.got, answer), "search failed with status", "")
    ELSE Returned(a.client, Append(a.sent, Request("GET /subtitles", a.client)),
                  Append(a.got, answer), "", "")

\* Search once authenticated (a is what the start returned): answer is the
\* server's answer to GET /subtitles
SearchRequest(a, answer) ==
    IF answer.err
    THEN Returned(a.client, Append(a.sent, Request("GET /subtitles", a.client)),
                  Append(a.got, answer), "search request failed", "transport")
    ELSE IF answer.code = 401
    THEN Returned([a.client EXCEPT !.token = ""],
                  Append(a.sent, Request("GET /subtitles", a.client)),
                  Append(a.got, answer),
                  "authentication expired, please retry", "")
    ELSE IF answer.code /= 200
    THEN Returned(a.client, Append(a.sent, Request("GET /subtitles", a.client)),
                  Append(a.got, answer), "search failed with status", "")
    ELSE Returned(a.client, Append(a.sent, Request("GET /subtitles", a.client)),
                  Append(a.got, answer), "", "")

SearchFrom(a, answer) ==
    IF a.err /= ""
    THEN Returned(a.client, a.sent, a.got, "authentication required", a.err)
    ELSE SearchRequest(a, answer)

Search(c, login, answer) == SearchFrom(Authenticated(c, login), answer)

\* Download from the link of a 200 answer on: file is the server's answer to
\* GET link
DownloadFile(c, sent, got, file) ==
    IF file.err
    THEN Returned(c, sent, Append(got, file),
                  "failed to download subtitle file", "transport")
    ELSE IF file.code /= 200
    THEN Returned(c, sent, Append(got, file),
                  "subtitle file download failed with status", "")
    ELSE Returned(c, sent, Append(got, file), "", "")

\* Download once authenticated and the file ID converted: answer is the
\* server's answer to POST /download
DownloadRequest(c, sent, got, answer, file) ==
    IF answer.err
    THEN Returned(c, sent, got, "download request failed", "transport")
    ELSE IF answer.code = 401
    THEN Returned([c EXCEPT !.token = ""], sent, got,
                  "authentication expired, please retry", "")
    ELSE IF answer.code = 406
    THEN Returned(c, sent, got, "download limit exceeded", "")
    ELSE IF answer.code /= 200
    THEN Returned(c, sent, got, "download failed with status", "")
    ELSE IF answer.Link = ""
    THEN Returned(c, sent, got, "no download link provided", "")
    ELSE DownloadFile(c, Append(sent, Request("GET link", c)), got, file)

DownloadFrom(a, fileID, answer, file) ==
    IF a.err /= ""
    THEN Returned(a.client, a.sent, a.got, "authentication required", a.err)
    ELSE IF ~Atoi(fileID).ok
    THEN Returned(a.client, a.sent, a.got, "invalid file ID", "")
    ELSE DownloadRequest(a.client,
                         Append(a.sent, Request("POST /download", a.client)),
                         Append(a.got, answer), answer, file)

Download(c, fileID, login, answer, file) ==
    DownloadFrom(Authenticated(c, login), fileID, answer, file)

-----------------------------------------------------------------------------
(* SpecClient: up to MaxCalls calls of Authenticate, Search and Download   *)
(* on one client, the server answering each request in any way             *)

MaxCalls == 2

Credentials == {<<"", "">>, <<"user", "">>, <<"user", "secret">>}

Logins ==
    {TransportError}
    \cup {[Response(code) EXCEPT !.Status = status, !.Token = token] :
            code \in {200, 401}, status \in {200, 401}, token \in {"", "tok"}}

SearchAnswers ==
    {TransportError, Response(200), [Response(200) EXCEPT !.found = 1],
     Response(401), Response(500)}

DownloadAnswers ==
    {TransportError, Response(401), Response(406), Response(500),
     Response(200), [Response(200) EXCEPT !.Link = "link"]}

FileAnswers == {TransportError, Response(200), Response(404)}

FileIDs == {<<"1", "2">>, <<"x">>}

UnitIdle ==
    /\ shape = Empty
    /\ filename = Empty
    /\ Idle
    /\ GateIdle

InitClient ==
    /\ pc = 0
    /\ UnitIdle
    /\ ConcIdle
    /\ \E cr \in Credentials : client = NewOpenSubtitlesClient(cr[1], cr[2])
    /\ wire = <<>> /\ reply = NoReply
    /\ CliIdle

\* the call op has returned r
Reply(op, r) ==
    /\ client' = r.client
    /\ wire' = wire \o r.sent
    /\ reply' = [op |-> op, err |-> r.err, wraps |-> r.wraps,
                 sent |-> r.sent, got |-> r.got]
    /\ pc' = pc + 1
    /\ UNCHANGED <<unitVars, concVars, cliVars>>

CallAuthenticate ==
    /\ pc < MaxCalls
    /\ \E login \in Logins : Reply("Authenticate", Authenticate(client, login))

CallSearch ==
    /\ pc < MaxCalls
    /\ \E login \in Logins, answer \in SearchAnswers :
          Reply("Search", Search(client, login, answer))

CallDownload ==
    /\ pc < MaxCalls
    /\ \E fileID \in FileIDs, login \in Logins, answer \in DownloadAnswers,
          file \in FileAnswers :
          Reply("Download", Download(client, fileID, login, answer, file))

NextClient == CallAuthenticate \/ CallSearch \/ CallDownload

SpecClient == InitClient /\ [][NextClient]_vars

\* the requests a call sends once it is authenticated
Guarded == {"GET /subtitles", "POST /download", "GET link"}

\* the positions in the last call's requests of a /subtitles or /download
\* request that the server answered with 401
Expired ==
    {i \in 1..Len(reply.sent) :
        /\ reply.sent[i].req \in {"GET /subtitles", "POST /download"}
        /\ ~reply.got[i].err
        /\ reply.got[i].code = 401}

\* C14 as stated: a Search or Download whose request is answered with 401
\* logs in again and sends that request once more, once, before it returns.
C14_ExpiredTokenRetriedOnce ==
    (reply.op \in {"Search", "Download"} /\ Expired /= {}) =>
        LET i == Least(Expired)
        IN /\ Len(reply.sent) >= i + 2
           /\ reply.sent[i + 1].req = "POST /login"
           /\ reply.sent[i + 2].req = reply.sent[i].req
           /\ Cardinality({j \in 1..Len(reply.sent) :
                             reply.sent[j].req = reply.sent[i].req}) = 2

\* C15: a Search or Download made while no token is held calls Authenticate
\* first; when that fails (credentials missing, transport error, status
\* other than 200, body status other than 200) the call returns an error
\* wrapping "authentication required", sends no /subtitles, /download or
\* link request, and the token stays empty.
C15_NoTokenAuthenticatesFirst ==
    [][(client.token = "" /\ reply'.op \in {"Search", "Download"}) =>
         LET creds == client.Username /= "" /\ client.Password /= ""
             loggedIn == /\ creds
                         /\ ~reply'.got[1].err
                         /\ reply'.got[1].code = 200
                         /\ reply'.got[1].Status = 200
         IN /\ creds => /\ reply'.sent /= <<>>
                        /\ reply'.sent[1].req = "POST /login"
            /\ ~creds => reply'.sent = <<>>
            /\ ~loggedIn =>
                  /\ reply'.err = "authentication required"
                  /\ reply'.wraps /= ""
                  /\ \A i \in 1..Len(reply'.sent) :
                        reply'.sent[i].req \notin Guarded
                  /\ client'.token = ""]_vars

\* C15's case: a Search without a token whose login is answered 200 with a
\* body status other than 200
C15_Witness ==
    /\ reply.op = "Search"
    /\ reply.err = "authentication required"
    /\ reply.wraps = "authentication failed: invalid credentials"
    /\ Len(reply.sent) = 1
    /\ reply.sent[1].req = "POST /login"
    /\ reply.got[1].code = 200
    /\ client.token = ""

\* C29: every /subtitles and /download request the client has sent left it
\* while it held a non-empty token
C29_RequestsCarryToken ==
    \A i \in 1..Len(wire) :
       wire[i].req \in {"GET /subtitles", "POST /download"} =>
          wire[i].token /= ""

\* the failures of Search and Download that are neither a failed login nor
\* an expired token
OtherFailures ==
    {"search request failed", "search failed with status", "invalid file ID",
     "download request failed", "download limit exceeded",
     "download failed with status", "no download link provided",
     "failed to download subtitle file",
     "subtitle file download failed with status"}

\* C30: a Search or Download that is answered 401 leaves the token empty and
\* returns an error, and the Search or Download that follows it logs in
\* before anything else; a Search or Download made while a token is held
\* sends no login; and any other failure leaves the token as the call held
\* it: the one it started with, or the one of its own login
C30_TokenClearedOnlyOn401 ==
    [][reply'.op \in {"Search", "Download"} =>
         /\ Expired' /= {} =>
               /\ client'.token = ""
               /\ reply'.err = "authentication expired, please retry"
         /\ (reply.op \in {"Search", "Download"}
             /\ reply.err = "authentication expired, please retry") =>
               /\ client.token = ""
               /\ reply'.sent /= <<>>
               /\ reply'.sent[1].req = "POST /login"
         /\ client.token /= "" =>
               \A i \in 1..Len(reply'.sent) :
                  reply'.sent[i].req /= "POST /login"
         /\ reply'.err \in OtherFailures =>
               client'.token = IF client.token /= "" THEN client.token
                               ELSE reply'.got[1].Token]_vars

\* a call sent its request with a token, and the call after it, a Search or
\* Download, started with a login of its own: the token had been cleared
C30_Witness ==
    /\ pc = 2
    /\ reply.op \in {"Search", "Download"}
    /\ Len(wire) = Len(reply.sent) + 2
    /\ wire[1].req = "POST /login"
    /\ wire[2].req \in {"GET /subtitles", "POST /download"}
    /\ wire[2].token /= ""
    /\ reply.sent /= <<>>
    /\ reply.sent[1].req = "POST /login"
    /\ reply.err = ""

-----------------------------------------------------------------------------
(* The CLI *)

\* something the CLI did: a validator it ran, a system call it made, a
\* filename it parsed, a search it made
Event(ev, arg) == [ev |-> ev, arg |-> arg]

\* the working directory
Cwd == <<"/", "c", "w", "d">>

\* filepath.Abs (which also cleans) on a clean path: the path itself when it
\* is rooted, else the path under the working directory
Abs(path) ==
    IF path = <<".">> THEN Cwd
    ELSE IF path /= Empty /\ Head(path) = "/" THEN path
    ELSE Cwd \o <<"/">> \o path

\* os.Stat: "dir" or "file", "none" for a path that does not exist and
\* "denied" for one that cannot be accessed
Stat(d, path) ==
    IF Abs(path) \in DOMAIN d.kind THEN d.kind[Abs(path)] ELSE "none"

\* filepath.Ext: the suffix of the last element from its last dot on
RECURSIVE ExtFrom(_, _)
ExtFrom(path, i) ==
    IF i < 1 \/ path[i] = "/" THEN Empty
    ELSE IF path[i] = "." THEN From(path, i)
    ELSE ExtFrom(path, i - 1)

Ext(path) == ExtFrom(path, Len(path))

mediaExtensions ==
    {<<".", "m", "p", "4">>, <<".", "m", "k", "v">>, <<".", "a", "v", "i">>, <<".", "m", "o", "v">>, <<".", "w", "m", "v">>, <<".", "f", "l", "v">>, <<".", "w", "e", "b", "m">>, <<".", "m", "4", "v">>, <<".", "m", "p", "g">>,
     <<".", "m", "p", "e", "g">>, <<".", "3", "g", "p">>}

\* what a validator, or validateArguments, has done when it returns: the
\* CLI struct as it leaves it, what it did, and its error ("" for nil)
Validation(c, events, err) == [cli |-> c, events |-> events, err |-> err]

validatePath(c, d) ==
    IF Stat(d, Abs(c.Path)) = "none"
    THEN Validation(c, <<Event("validatePath", c.Path),
                         Event("stat", Abs(c.Path))>>, "path does not exist")
    ELSE IF Stat(d, Abs(c.Path)) = "denied"
    THEN Validation(c, <<Event("validatePath", c.Path),
                         Event("stat", Abs(c.Path))>>, "cannot access path")
    ELSE Validation([c EXCEPT !.Path = Abs(c.Path)],
                    <<Event("validatePath", c.Path),
                      Event("stat", Abs(c.Path))>>, "")

isValidLanguageCode(code) ==
    IF Len(code) = 2 \/ Len(code) = 3
    THEN \A i \in 1..Len(code) : ToLowerChar(code[i]) \in LowerSet
    ELSE IF Len(code) = 5 /\ code[3] = "-"
    THEN \A i \in {1, 2, 4, 5} : ToLowerChar(code[i]) \in LowerSet
    ELSE FALSE

\* the loop of validateLanguages over c.Language[i..]
RECURSIVE LanguagesFrom(_, _, _)
LanguagesFrom(c, i, validLanguages) ==
    IF i > Len(c.Language)
    THEN (IF validLanguages = <<>>
          THEN Validation(c, <<Event("validateLanguages", c.Language)>>,
                          "no valid language codes provided")
          ELSE Validation([c EXCEPT !.Language = validLanguages],
                          <<Event("validateLanguages", c.Language)>>, ""))
    ELSE IF TrimSpace(c.Language[i]) = Empty
    THEN LanguagesFrom(c, i + 1, validLanguages)
    ELSE IF Len(TrimSpace(c.Language[i])) < 2
            \/ Len(TrimSpace(c.Language[i])) > 5
    THEN Validation(c, <<Event("validateLanguages", c.Language)>>,
                    "invalid language code")
    ELSE IF ~isValidLanguageCode(TrimSpace(c.Language[i]))
    THEN Validation(c, <<Event("validateLanguages", c.Language)>>,
                    "invalid language code format")
    ELSE LanguagesFrom(c, i + 1,
                       Append(validLanguages, TrimSpace(c.Language[i])))

validateLanguages(c) ==
    IF c.Language = <<>>
    THEN Validation(c, <<Event("validateLanguages", c.Language)>>,
                    "at least one language must be specified")
    ELSE LanguagesFrom(c, 1, <<>>)

validateConfigFile(c, d) ==
    IF Stat(d, Abs(c.Config)) = "none"
    THEN Validation(c, <<Event("validateConfigFile", c.Config),
                         Event("stat", Abs(c.Config))>>,
                    "config file does not exist")
    ELSE IF Stat(d, Abs(c.Config)) = "denied"
    THEN Validation(c, <<Event("validateConfigFile", c.Config),
                         Event("stat", Abs(c.Config))>>,
                    "cannot access config file")
    ELSE Validation([c EXCEPT !.Config = Abs(c.Config)],
                    <<Event("validateConfigFile", c.Config),
                      Event("stat", Abs(c.Config))>>, "")

validateModeConsistency(c) ==
    IF c.Search /= Empty /\ TrimSpace(c.Search) = Empty
    THEN Validation(c, <<Event("validateModeConsistency", c.Search)>>,
                    "search query cannot be empty when using search mode")
    ELSE Validation(c, <<Event("validateModeConsistency", c.Search)>>, "")

\* a validator that ran after what r records: its events follow r's
After(r, v) == Validation(v.cli, r.events \o v.events, v.err)

\* validateArguments from its second, third and fourth validator on; r is
\* what has happened so far
ModeStep(r) ==
    IF r.err /= "" THEN r ELSE After(r, validateModeConsistency(r.cli))

ConfigStep(r, d) ==
    IF r.err /= "" THEN r
    ELSE IF r.cli.Config /= Empty
    THEN ModeStep(After(r, validateConfigFile(r.cli, d)))
    ELSE ModeStep(r)

LanguagesStep(r, d) ==
    IF r.err /= "" THEN r ELSE ConfigStep(After(r, validateLanguages(r.cli)), d)

\* validateArguments that validates the path whether or not a search query
\* is set
validateArgumentsAlwaysPath(c, d) == LanguagesStep(validatePath(c, d), d)

\* validateArguments: the first error ends it
validateArguments(c, d) ==
    IF c.Search = Empty THEN LanguagesStep(validatePath(c, d), d)
    ELSE LanguagesStep(Validation(c, <<>>, ""), d)

\* the loop of processDirectory over entries[i..]: the media files, each
\* joined to the directory's path
RECURSIVE MediaFilesFrom(_, _, _, _)
MediaFilesFrom(path, entries, i, mediaFiles) ==
    IF i > Len(entries) THEN mediaFiles
    ELSE IF entries[i].dir
    THEN MediaFilesFrom(path, entries, i + 1, mediaFiles)
    ELSE IF ToLower(Ext(entries[i].name)) \in mediaExtensions
    THEN MediaFilesFrom(path, entries, i + 1,
                        Append(mediaFiles, path \o <<"/">> \o entries[i].name))
    ELSE MediaFilesFrom(path, entries, i + 1, mediaFiles)

\* the loop of searchAndDisplaySubtitles over c.Language[i..], one Search
\* per language on the same client; ins[i] is what the server answers for
\* language i; errs collects each Search's error
RECURSIVE SearchLanguages(_, _, _, _, _)
SearchLanguages(c, cl, i, ins, errs) ==
    IF i > Len(c.Language) THEN errs
    ELSE SearchLanguages(c, Search(cl, ins[i].login, ins[i].answer).client,
                         i + 1, ins,
                         Append(errs,
                                Search(cl, ins[i].login, ins[i].answer).err))

\* searchAndDisplaySubtitles: a new client with the built-in credentials; it
\* returns nil whatever the searches returned
searchAndDisplaySubtitles(c, ins) ==
    [events |-> <<Event("search",
                        SearchLanguages(c,
                                        NewOpenSubtitlesClient("demo", "demo"),
                                        1, ins, <<>>))>>,
     err |-> ""]

\* processFile from Parse's answer on
Processed(c, filePath, parsed, ins) ==
    IF ~parsed.ok
    THEN [events |-> <<Event("processFile", filePath),
                       Event("parse", Base(filePath)),
                       Event("failed to parse", parsed.err)>>,
          failed |-> TRUE, err |-> ""]
    ELSE [events |-> <<Event("processFile", filePath),
                       Event("parse", Base(filePath))>>
                     \o searchAndDisplaySubtitles(c, ins).events,
          failed |-> FALSE, err |-> ""]

processFile(c, filePath, ins) ==
    Processed(c, filePath, Parse(Base(filePath)), ins)

\* the loop of processDirectory that gives up on the first file processFile
\* could not parse
AfterFileStops(mode, r, rest) ==
    IF mode = "directory" /\ ~r.failed
    THEN [todo |-> rest, done |-> FALSE, err |-> ""]
    ELSE [todo |-> <<>>, done |-> TRUE,
          err |-> IF r.failed THEN "failed to parse" ELSE r.err]

\* what follows a call of processFile that returned r: in processDirectory's
\* loop the next file, whatever r is; for a single file, the return of r's
\* error
AfterFile(mode, r, rest) ==
    IF mode = "directory" THEN [todo |-> rest, done |-> FALSE, err |-> ""]
    ELSE [todo |-> <<>>, done |-> TRUE, err |-> r.err]

-----------------------------------------------------------------------------
(* SpecCLI: one run of the CLI, Run's file loop a step at a time *)

MaxEntries == 2

\* what a directory may hold, in the order os.ReadDir lists it (by name): a
\* media file Parse rejects, two media files Parse accepts, a directory with
\* a media extension, a file that is no media file
EntryPool ==
    <<[name |-> <<"1", ".", "a", "v", "i">>, dir |-> FALSE],
      [name |-> <<"A", ".", "2", "0", "2", "4", ".", "m", "k", "v">>, dir |-> FALSE],
      [name |-> <<"B", ".", "S", "0", "1", "E", "0", "2", ".", "M", "P", "4">>, dir |-> FALSE],
      [name |-> <<"d", ".", "m", "k", "v">>, dir |-> TRUE],
      [name |-> <<"n", ".", "t", "x", "t">>, dir |-> FALSE]>>

\* the entries of EntryPool at the indices of S, in order
RECURSIVE Pick(_, _)
Pick(S, i) ==
    IF i > Len(EntryPool) THEN <<>>
    ELSE IF i \in S THEN <<EntryPool[i]>> \o Pick(S, i + 1)
    ELSE Pick(S, i + 1)

Listings ==
    {Pick(S, 1) : S \in {S \in SUBSET (1..Len(EntryPool)) :
                            Cardinality(S) <= MaxEntries}}

\* the file system, but for what the directories hold: the working
\* directory and media are directories, f/A.2024.mkv and cfg are files,
\* locked cannot be accessed and nothing else exists
Kinds ==
    (Cwd :> "dir")
    @@ (Abs(<<"m", "e", "d", "i", "a">>) :> "dir")
    @@ (Abs(<<"f", "/", "A", ".", "2", "0", "2", "4", ".", "m", "k", "v">>)
          :> "file")
    @@ (Abs(<<"c", "f", "g">>) :> "file")
    @@ (Abs(<<"l", "o", "c", "k", "e", "d">>) :> "denied")

\* both directories hold the same entries
Disks ==
    {[kind |-> Kinds, entries |-> entries, readable |-> readable] :
        entries \in Listings, readable \in BOOLEAN}

Languages ==
    {DefaultCLI.Language, <<<<" ", "p", "t", "-", "B", "R">>, Empty, <<"e", "n">>>>, <<<<"e", "1">>>>, <<<<" ">>>>, <<>>}

CLIs ==
    {[DefaultCLI EXCEPT !.Version = TRUE]}
    \cup {[Path |-> path, Language |-> language, Config |-> config,
           Search |-> search, Version |-> FALSE] :
            path \in {<<".">>, <<"m", "e", "d", "i", "a">>, <<"f", "/", "A", ".", "2", "0", "2", "4", ".", "m", "k", "v">>, <<"m", "i", "s", "s", "i", "n", "g">>, <<"l", "o", "c", "k", "e", "d">>},
            language \in Languages,
            config \in {Empty, <<"c", "f", "g">>, <<"n", "o", "c", "f", "g">>},
            search \in {Empty, <<" ", " ">>, <<"Q">>}}

GoodLogin == [Response(200) EXCEPT !.Status = 200, !.Token = "tok"]

\* what the server answers to one language's search: its answer to a login
\* and its answer to the search
SearchIns ==
    {[login |-> GoodLogin, answer |-> [Response(200) EXCEPT !.found = 1]],
     [login |-> GoodLogin, answer |-> Response(401)],
     [login |-> TransportError, answer |-> Response(200)]}

InitCLI ==
    /\ pc = "start"
    /\ UnitIdle /\ ConcIdle /\ ApiIdle
    /\ cli \in CLIs
    /\ disk \in Disks
    /\ trace = <<>> /\ todo = <<>> /\ ret = NoReturn

\* Run returns err, which wraps the error of what it called
Return(err, wraps) == [op |-> "Run", err |-> err, wraps |-> wraps]

\* Run up to its call of processMediaFiles
RunValidate ==
    /\ pc = "start"
    /\ IF cli.Version
       THEN /\ trace' = <<Event("printVersionInfo", Empty)>>
            /\ ret' = Return("", "")
            /\ pc' = "done"
            /\ UNCHANGED cli
       ELSE /\ cli' = validateArguments(cli, disk).cli
            /\ IF validateArguments(cli, disk).err /= ""
               THEN /\ trace' = validateArguments(cli, disk).events
                    /\ ret' = Return("validation error",
                                     validateArguments(cli, disk).err)
                    /\ pc' = "done"
               ELSE /\ trace' = validateArguments(cli, disk).events
                                \o <<Event("displayConfiguration", Empty),
                                     Event("parser.New", Empty)>>
                    /\ pc' = "process"
                    /\ UNCHANGED ret
    /\ UNCHANGED <<disk, todo>>
    /\ UNCHANGED <<unitVars, concVars, apiVars>>

\* processMediaFiles up to its first call of processFile, processDirectory's
\* listing of the directory included
ProcessMediaFiles ==
    /\ pc = "process"
    /\ IF Stat(disk, cli.Path) \in {"none", "denied"}
       THEN /\ trace' = Append(trace, Event("stat", Abs(cli.Path)))
            /\ ret' = Return("failed to process media files",
                             "cannot access path")
            /\ pc' = "done"
            /\ UNCHANGED todo
       ELSE IF Stat(disk, cli.Path) = "file"
       THEN /\ trace' = Append(trace, Event("stat", Abs(cli.Path)))
            /\ todo' = <<cli.Path>>
            /\ pc' = "file"
            /\ UNCHANGED ret
       ELSE IF ~disk.readable
       THEN /\ trace' = trace \o <<Event("stat", Abs(cli.Path)),
                                   Event("readdir", cli.Path)>>
            /\ ret' = Return("failed to process media files",
                             "failed to read directory")
            /\ pc' = "done"
            /\ UNCHANGED todo
       ELSE /\ trace' = trace \o <<Event("stat", Abs(cli.Path)),
                                   Event("readdir", cli.Path)>>
            /\ todo' = MediaFilesFrom(cli.Path, disk.entries, 1, <<>>)
            /\ IF MediaFilesFrom(cli.Path, disk.entries, 1, <<>>) = <<>>
               THEN ret' = Return("", "") /\ pc' = "done"
               ELSE pc' = "directory" /\ UNCHANGED ret
    /\ UNCHANGED <<cli, disk>>
    /\ UNCHANGED <<unitVars, concVars, apiVars>>

\* a call of processFile with what follows it: r is what the call did, after
\* is where the loop, or processMediaFiles, goes from there
FileDone(r, after) ==
    /\ trace' = trace \o r.events \o <<Event("processFile returned", r.err)>>
    /\ todo' = after.todo
    /\ IF after.done \/ after.todo = <<>>
       THEN /\ pc' = "done"
            /\ ret' = IF after.err = "" THEN Return("", "")
                      ELSE Return("failed to process media files", after.err)
       ELSE UNCHANGED <<pc, ret>>

\* the call of processFile on the next file; the server's answers to its
\* searches are the inputs
ProcessFile ==
    /\ pc \in {"directory", "file"}
    /\ todo /= <<>>
    /\ \E ins \in [1..Len(cli.Language) -> SearchIns] :
          FileDone(processFile(cli, Head(todo), ins),
                   AfterFile(pc, processFile(cli, Head(todo), ins),
                             Tail(todo)))
    /\ UNCHANGED <<cli, disk>>
    /\ UNCHANGED <<unitVars, concVars, apiVars>>

NextCLI == RunValidate \/ ProcessMediaFiles \/ ProcessFile

SpecCLI == InitCLI /\ [][NextCLI]_vars

\* the validators that have run, in the order they ran
IsValidator(e) ==
    e.ev \in {"validatePath", "validateLanguages", "validateConfigFile",
              "validateModeConsistency"}

Ran == [i \in 1..Len(SelectSeq(trace, IsValidator)) |->
          SelectSeq(trace, IsValidator)[i].ev]

\* the validators the arguments call for, in order
Due ==
    (IF cli.Search = Empty THEN <<"validatePath">> ELSE <<>>)
    \o <<"validateLanguages">>
    \o (IF cli.Config /= Empty THEN <<"validateConfigFile">> ELSE <<>>)
    \o <<"validateModeConsistency">>

\* the error of one validator on the arguments
ErrorOf(validator) ==
    CASE validator = "validatePath" -> validatePath(cli, disk).err
      [] validator = "validateLanguages" -> validateLanguages(cli).err
      [] validator = "validateConfigFile" -> validateConfigFile(cli, disk).err
      [] validator = "validateModeConsistency" ->
            validateModeConsistency(cli).err

\* the place in Due of the first validator that rejects the arguments, 0
\* when none does
FirstRejecting ==
    IF \A k \in 1..Len(Due) : ErrorOf(Due[k]) = "" THEN 0
    ELSE CHOOSE k \in 1..Len(Due) :
            /\ ErrorOf(Due[k]) /= ""
            /\ \A j \in 1..(k - 1) : ErrorOf(Due[j]) = ""

PathErrors == {"path does not exist", "cannot access path"}

\* C19: validateArguments runs its validators in the order path (not at all
\* when a search query is set), languages, config file (only when a config
\* path is set), mode consistency; it stops at the first validator that
\* fails and returns its error; with a search query set no path error is a
\* validation error, and a whitespace-only query that gets as far as the
\* mode check fails with "search query cannot be empty"
C19_ValidatorsInOrderFirstErrorWins ==
    (pc /= "start" /\ ~cli.Version) =>
        /\ Ran = IF FirstRejecting = 0 THEN Due
                 ELSE SubSeq(Due, 1, FirstRejecting)
        /\ FirstRejecting = 0 => ret.err /= "validation error"
        /\ FirstRejecting /= 0 =>
              ret = Return("validation error", ErrorOf(Due[FirstRejecting]))
        /\ (cli.Search /= Empty /\ ret.err = "validation error") =>
              ret.wraps \notin PathErrors
        /\ (cli.Search /= Empty /\ TrimSpace(cli.Search) = Empty
            /\ Ran = Due) =>
              ret = Return("validation error",
                           "search query cannot be empty when using search mode")

\* a whitespace-only query with a path that does not exist and a config
\* file: the path is not validated and the mode check rejects the query
C19_Witness ==
    /\ pc = "done"
    /\ cli.Path = <<"m", "i", "s", "s", "i", "n", "g">> /\ Stat(disk, cli.Path) = "none"
    /\ cli.Search = <<" ", " ">>
    /\ Ran = <<"validateLanguages", "validateConfigFile",
               "validateModeConsistency">>
    /\ ret = Return("validation error",
                    "search query cannot be empty when using search mode")

\* C18: with a non-blank search query the path is ignored: it is not
\* stat'ed, not listed, no filename of it is parsed, and Run does not fail
\* on it
C18_SearchQueryIgnoresPath ==
    (cli.Search /= Empty /\ TrimSpace(cli.Search) /= Empty) =>
        /\ \A i \in 1..Len(trace) :
              /\ trace[i].ev \notin {"readdir", "processFile", "parse"}
              /\ trace[i].ev = "stat" => trace[i].arg /= Abs(cli.Path)
        /\ ret.wraps \notin PathErrors

\* the directory has been listed
Listed == \E i \in 1..Len(trace) : trace[i].ev = "readdir"

IsParse(e) == e.ev = "parse"

\* the filenames handed to Parse so far, in order
ParsedNames ==
    [i \in 1..Len(SelectSeq(trace, IsParse)) |->
       SelectSeq(trace, IsParse)[i].arg]

\* the entry is a regular file whose name ends in a media extension, in
\* whatever case
IsMediaFile(e) ==
    /\ ~e.dir
    /\ \E ext \in mediaExtensions :
          /\ Len(ext) <= Len(e.name)
          /\ ToLower(From(e.name, Len(e.name) - Len(ext) + 1)) = ext

\* the names of the directory's media files in listing order
MediaNames ==
    [i \in 1..Len(SelectSeq(disk.entries, IsMediaFile)) |->
       SelectSeq(disk.entries, IsMediaFile)[i].name]

\* C16: in directory mode every call of processFile returns nil, whether or
\* not the name parsed and the searches succeeded; the files processed so
\* far and those still to come are the directory's media files, each once,
\* in listing order; the run ends only when none is left, and then Run, and
\* so processDirectory, returns nil
C16_BatchNeverStopsOnAFile ==
    (Listed /\ disk.readable) =>
        /\ \A i \in 1..Len(trace) :
              trace[i].ev = "processFile returned" => trace[i].arg = ""
        /\ ParsedNames \o [i \in 1..Len(todo) |-> Base(todo[i])] = MediaNames
        /\ pc = "done" => (todo = <<>> /\ ret = Return("", ""))
        /\ pc /= "done" => (pc = "directory" /\ todo /= <<>>)

\* a directory whose first media file did not parse and whose second was
\* parsed and its search failed, and Run returned nil
C16_Witness ==
    /\ pc = "done" /\ Listed
    /\ ret = Return("", "")
    /\ \E i, j \in 1..Len(trace) :
          /\ i < j
          /\ trace[i].ev = "failed to parse"
          /\ trace[j].ev = "search"
          /\ \E k \in 1..Len(trace[j].arg) : trace[j].arg[k] /= ""

-----------------------------------------------------------------------------
(* SpecShared: concurrent calls of Parse on one Parser. patterns is the     *)
(* Parser's registry, which the calls share; everything else a call uses is *)
(* local to it: its filename, cleanName, its place in the loop and what it  *)
(* returns. A step of a call is cleanFilename or one turn of its loop, and  *)
(* the steps of different calls interleave in any order.                    *)

MaxParsers == 2

SharedNames ==
    {<<"A", "b", ".", "2", "0", "3", "0", ".", "S", "0", "1", "E", "0", "1", ".", "m", "k", "v">>, <<"A", "b", ".", "1", "8", "0", "0", ".", "S", "0", "1", "E", "0", "1", ".", "m", "k", "v">>, <<"A", "b", ".", "2", "0", "3", "0", ".", "1", "0", "8", "0", "p", ".", "B", "l", "u", "R", "a", "y", ".", "m", "k", "v">>,
     <<"1", ".", "a", "v", "i">>}

\* a call of Parse that has not taken a step
Called(name) ==
    [filename |-> name, cleanName |-> Empty, i |-> 0, at |-> "called",
     result |-> NoResult]

\* the first statement of Parse
Cleaned(call) ==
    [call EXCEPT !.cleanName = cleanFilename(call.filename), !.i = 1,
                 !.at = "loop"]

\* what a step leaves: the registry and the call's locals
Stepped(ps, call) == [patterns |-> ps, call |-> call]

\* a turn of the loop that moves the pattern whose record it returns to the
\* front of the registry
LoopTurnMovesToFront(ps, call, c) ==
    IF c.matched /\ c.ok
    THEN Stepped(<<ps[call.i]>> \o SubSeq(ps, 1, call.i - 1)
                    \o SubSeq(ps, call.i + 1, Len(ps)),
                 [call EXCEPT !.at = "returned",
                              !.result = [ok |-> TRUE, info |-> c.info,
                                          rule |-> call.i, err |-> <<>>]])
    ELSE Stepped(ps, [call EXCEPT !.i = call.i + 1])

\* a turn of Parse's loop for a pattern whose answer is c: an accepted record
\* is returned, else the loop goes on; the registry is left as it is
LoopTurn(ps, call, c) ==
    IF c.matched /\ c.ok
    THEN Stepped(ps, [call EXCEPT !.at = "returned",
                                  !.result = [ok |-> TRUE, info |-> c.info,
                                              rule |-> call.i, err |-> <<>>]])
    ELSE Stepped(ps, [call EXCEPT !.i = call.i + 1])

\* the next step of a call in its loop: past the last pattern it returns the
\* error, else it tries the pattern the registry holds at its place
Looped(ps, call) ==
    IF call.i > Len(ps)
    THEN Stepped(ps, [call EXCEPT !.at = "returned",
                                  !.result = ParseError(call.filename)])
    ELSE LoopTurn(ps, call,
                  Tried(FindStringSubmatch(ps[call.i].Regex, call.cleanName),
                        ps[call.i]))

InitShared ==
    /\ pc = "shared"
    /\ UnitIdle /\ ApiIdle /\ CliIdle
    /\ patterns = compilePatterns
    /\ calls \in [1..MaxParsers -> {Called(name) : name \in SharedNames}]

ParseClean ==
    /\ \E k \in 1..Len(calls) :
          /\ calls[k].at = "called"
          /\ calls' = [calls EXCEPT ![k] = Cleaned(calls[k])]
    /\ UNCHANGED <<pc, patterns>>
    /\ UNCHANGED <<unitVars, apiVars, cliVars>>

ParseTurn ==
    /\ \E k \in 1..Len(calls) :
          /\ calls[k].at = "loop"
          /\ patterns' = Looped(patterns, calls[k]).patterns
          /\ calls' = [calls EXCEPT ![k] = Looped(patterns, calls[k]).call]
    /\ UNCHANGED pc
    /\ UNCHANGED <<unitVars, apiVars, cliVars>>

NextShared == ParseClean \/ ParseTurn

SpecShared == InitShared /\ [][NextShared]_vars

\* C17: however the steps of concurrent calls interleave, the registry stays
\* as New built it, no call touches another call's locals before that call
\* has started, and each call returns what Parse returns for its filename
\* alone
C17_ConcurrentParseIndependent ==
    /\ patterns = compilePatterns
    /\ \A k \in 1..Len(calls) :
          /\ calls[k].at = "called" => calls[k] = Called(calls[k].filename)
          /\ calls[k].at = "returned" =>
                /\ calls[k].result.ok = Parse(calls[k].filename).ok
                /\ calls[k].result.info = Parse(calls[k].filename).info
                /\ calls[k].result.err = Parse(calls[k].filename).err

\* two calls with different filenames have both returned, one a record of a
\* pattern after the first, the other the error
C17_Witness ==
    /\ \A k \in 1..Len(calls) : calls[k].at = "returned"
    /\ \E j, k \in 1..Len(calls) :
          /\ calls[j].result.ok /\ calls[j].result.rule > 1
          /\ ~calls[k].result.ok
          /\ calls[k].result.err = <<"unable to parse filename", <<"1", ".", "a", "v", "i">>>>

====
